---- MODULE Spec2Model ----
(***************************************************************************)
(* State-machine model of opencode-flow's execution core:                  *)
(*   FlowOrchestrator (src/src/core/flow.ts), AgentManager                 *)
(*   (src/src/core/agent-manager.ts) and FileMemoryBackend                 *)
(*   (src/unnamed/part_004, core/memory.ts).                               *)
(*                                                                         *)
(* An optional JavaScript value is a sequence of length 0 or 1             *)
(* (<<>> is undefined, <<v>> is v).  Money is counted in whole units, the  *)
(* running average latency is an exact fraction [n, d].                    *)
(***************************************************************************)
EXTENDS Integers, Sequences, FiniteSets, TLC

\* ---------------------------------------------------------------- bounds
\* longest agent list handed to execute
MaxAgents == 2
\* last instant of the clock: the agents are spawned at instant 0, execute is
\* called at instant 1 and Date.now() is read in 1..MaxTime
MaxTime == 3

\* ------------------------------------------------------------ input sets
\* names of the agents that were spawned before the run
Names == {"a1", "a2", "a3"}
\* a name that was never spawned
Ghost == "ghost"
Task == "Test task"
\* execution.mode: undefined, the three modes, and a string that is no mode
ModeInputs == {<<>>, <<"parallel">>, <<"sequential">>, <<"hierarchical">>, <<"swarm">>}
\* execution.timeout when one is given, in clock units
Timeout == 1

\* what the remote service can answer to a prompt: a priced one-part answer,
\* and an answer without cost or token counts whose first part is no text
PricedResponse ==
  [info  |-> [cost |-> <<1>>, tokens |-> <<[input |-> 3, output |-> 2]>>],
   parts |-> <<[type |-> "text", text |-> "x"]>>]

FreeResponse ==
  [info  |-> [cost |-> <<>>, tokens |-> <<>>],
   parts |-> <<[type |-> "tool", text |-> "u"],
               [type |-> "text", text |-> "y"],
               [type |-> "text", text |-> "z"]>>]

Responses == {PricedResponse, FreeResponse}

\* what a failed sendMessage rejects with: p-retry only ever rejects with an
\* Error instance
Rejections ==
  { [name |-> "Error", message |-> "boom", code |-> "", details |-> <<>>] }

\* ------------------------------------------------------------- variables
VARIABLES
  agents,     \* AgentManager.agents: name -> AgentInstance
  now,        \* Date.now()
  execution,  \* the TaskExecution handed to execute (<<>> before the call)
  pc,         \* where the execute call is suspended
  promises,   \* executeParallel: one promise per entry of the agent list
  results,    \* executeSequential: the local results array
  frame,      \* the other locals of the suspended call
  outcome,    \* what the execute promise settled to
  calls,      \* every client.sendMessage call, in the order issued
  events,     \* events emitted by the orchestrator, in order
  cache,      \* FileMemoryBackend.cache: key -> MemoryEntry
  files,      \* the files under storePath: path -> persisted MemoryEntry
  store,      \* FileMemoryBackend: the calls in progress and the last return
  updates,    \* the updateMetrics calls a caller of the registry made, in order
  detached,   \* AgentInstance objects no longer in AgentManager.agents that a
              \* pending call or timer still references: sessionId -> object
  sessions,   \* the number of client.createSession calls issued so far
  ops,        \* the spawn / terminate / terminateAll calls, in call order
  intervals,  \* the armed setInterval timers: sessionId -> next firing time
  probes,     \* the health probes whose getSession is in flight
  waits,      \* the waitForIdle calls, in call order
  retry,      \* FlowClient.withRetry: the run of one gateway operation
  stream      \* FlowClient: event subscriptions and the event stream

\* the state of the registry's lifecycle operations
registryVars == <<detached, sessions, ops, intervals, probes, waits>>

\* the state of the gateway
gatewayVars == <<retry, stream>>

vars == <<agents, now, execution, pc, promises, results, frame, outcome,
          calls, events, cache, files, detached, sessions, ops, intervals,
          probes, waits, retry, stream, store, updates>>

\* ------------------------------------------------------------- utilities
Range(s) == { s[i] : i \in 1..Len(s) }

OrZero(opt) == IF opt = <<>> THEN 0 ELSE opt[1]

\* Array.prototype.reduce((sum, x) => sum + x, 0) on an array of numbers
RECURSIVE Sum(_)
Sum(s) == IF s = <<>> THEN 0 ELSE Head(s) + Sum(Tail(s))

\* Array.prototype.join on an array of strings
RECURSIVE join(_, _)
join(s, sep) ==
  IF s = <<>> THEN ""
  ELSE IF Len(s) = 1 THEN s[1]
  ELSE s[1] \o sep \o join(Tail(s), sep)

RECURSIVE GCD(_, _)
GCD(a, b) == IF b = 0 THEN a ELSE GCD(b, a % b)

\* the fraction n/d in lowest terms
Frac(n, d) ==
  IF n = 0 THEN [n |-> 0, d |-> 1]
  ELSE [n |-> n \div GCD(n, d), d |-> d \div GCD(n, d)]

\* sequences over S of length 0..n
SeqUpTo(S, n) == UNION { [1..k -> S] : k \in 0..n }

\* ------------------------------------------------------------ error types
FlowError(message, code, details) ==
  [name |-> "FlowError", message |-> message, code |-> code, details |-> details]

TaskExecutionError(task, agent, cause) ==
  [name    |-> "TaskExecutionError",
   message |-> "Task execution failed: " \o task,
   code    |-> "TASK_FAILED",
   details |-> [task |-> task, agent |-> agent, cause |-> cause]]

\* error instanceof Error ? error : new Error(String(error))
toError(e) ==
  IF e.name \in {"Error", "FlowError", "TaskExecutionError"} THEN e
  ELSE [name |-> "Error", message |-> e.message, code |-> "", details |-> <<>>]

\* ------------------------------------------------------------ AgentManager
has(ag, name) == name \in DOMAIN ag

updateStatus(ag, name, status) ==
  IF name \in DOMAIN ag
  THEN [ag EXCEPT ![name].status = status, ![name].lastActivity = now]
  ELSE ag

\* updateMetrics that takes the latest latency for the average
updateMetricsLatest(ag, name, update) ==
  IF name \notin DOMAIN ag \/ ag[name].metrics = <<>> THEN ag
  ELSE
    LET m == ag[name].metrics[1] IN
    [ag EXCEPT ![name].metrics =
       <<[tasksCompleted |-> m.tasksCompleted + (IF update.latency # <<>> THEN 1 ELSE 0),
          totalCost      |-> m.totalCost + OrZero(update.cost),
          totalTokens    |->
            [input  |-> m.totalTokens.input
                        + (IF update.tokens # <<>> THEN update.tokens[1].input ELSE 0),
             output |-> m.totalTokens.output
                        + (IF update.tokens # <<>> THEN update.tokens[1].output ELSE 0)],
          averageLatency |-> IF update.latency # <<>>
                             THEN Frac(update.latency[1], 1)
                             ELSE m.averageLatency]>>]

\* update = [cost |-> optional, tokens |-> optional, latency |-> optional]
updateMetrics(ag, name, update) ==
  IF name \notin DOMAIN ag \/ ag[name].metrics = <<>> THEN ag
  ELSE
    LET m  == ag[name].metrics[1]
        m1 == IF update.cost # <<>>
              THEN [m EXCEPT !.totalCost = @ + update.cost[1]]
              ELSE m
        m2 == IF update.tokens # <<>>
              THEN [m1 EXCEPT !.totalTokens =
                      [input  |-> @.input + update.tokens[1].input,
                       output |-> @.output + update.tokens[1].output]]
              ELSE m1
        total == Frac(m2.averageLatency.n * m2.tasksCompleted, m2.averageLatency.d)
        m3 == IF update.latency # <<>>
              THEN [m2 EXCEPT
                      !.tasksCompleted = @ + 1,
                      !.averageLatency =
                         Frac(total.n + update.latency[1] * total.d,
                              total.d * (m2.tasksCompleted + 1))]
              ELSE m2
    IN [ag EXCEPT ![name].metrics = <<m3>>]

\* the handle spawn registers (agent-manager.ts 51-64), created at time 0
NewAgent(name) ==
  [name         |-> name,
   sessionId    |-> "session-" \o name,
   config       |-> [name |-> name, agent |-> "general", model |-> "test",
                     provider |-> <<>>, tools |-> <<>>],
   status       |-> "idle",
   createdAt    |-> 0,
   lastActivity |-> 0,
   metrics      |-> <<[tasksCompleted |-> 0, totalCost |-> 0,
                       totalTokens |-> [input |-> 0, output |-> 0],
                       averageLatency |-> [n |-> 0, d |-> 1]]>>]

\* the message object the parallel and sequential branches hand to sendMessage
AgentMessage(agent, text) ==
  [text |-> text, providerID |-> agent.config.provider,
   modelID |-> <<agent.config.model>>, agent |-> <<agent.config.agent>>,
   tools |-> agent.config.tools]

\* the message object of the coordinator's prompts (no tools field)
CoordinatorMessage(agent, text) ==
  [text |-> text, providerID |-> agent.config.provider,
   modelID |-> <<agent.config.model>>, agent |-> <<agent.config.agent>>,
   tools |-> <<>>]

\* one client.sendMessage call: `by` says which step of the run issued it,
\* `answer` is what its promise settled with
Call(sessionId, message, by) ==
  [sessionId |-> sessionId, message |-> message, by |-> by,
   state |-> "inflight", answer |-> <<>>]

settle(cs, c, state, answer) ==
  [cs EXCEPT ![c].state = state, ![c].answer = <<answer>>]

\* -------------------------------------------------------- FileMemoryBackend
StorePath == "./.flow-memory"

SafeChars ==
  {"a","b","c","d","e","f","g","h","i","j","k","l","m","n","o","p","q","r","s",
   "t","u","v","w","x","y","z","A","B","C","D","E","F","G","H","I","J","K","L",
   "M","N","O","P","Q","R","S","T","U","V","W","X","Y","Z","0","1","2","3","4",
   "5","6","7","8","9","_","-"}

\* key.replace(/[^a-zA-Z0-9_-]/g, '_')
RECURSIVE sanitize(_)
sanitize(key) ==
  IF key = "" THEN ""
  ELSE (IF SubSeq(key, 1, 1) \in SafeChars THEN SubSeq(key, 1, 1) ELSE "_")
       \o sanitize(SubSeq(key, 2, Len(key)))

getFilePath(key) == StorePath \o "/" \o sanitize(key) \o ".json"

\* the entry set() builds; ttl is optional, in seconds
MemoryEntry(key, value, ttl) ==
  [key |-> key, value |-> value, createdAt |-> now,
   expiresAt |-> IF ttl # <<>> /\ ttl[1] # 0 THEN <<now + ttl[1] * 1000>> ELSE <<>>,
   createdBy |-> "system"]

\* f with key k bound to v
Put(f, k, v) == [x \in DOMAIN f \cup {k} |-> IF x = k THEN v ELSE f[x]]

\* what get(key) returns in the current state (<<>> is null): the cached entry,
\* else the entry read from the key's file, unless it has expired
get(key) ==
  LET entry == IF key \in DOMAIN cache THEN <<cache[key]>>
               ELSE IF getFilePath(key) \in DOMAIN files
               THEN <<files[getFilePath(key)]>>
               ELSE <<>>
  IN IF entry = <<>> THEN <<>>
     ELSE IF entry[1].expiresAt # <<>> /\ now > entry[1].expiresAt[1] THEN <<>>
     ELSE <<entry[1].value>>

\* ---------------------------------------------------------- formatResults
\* textParts without the filter on the part type
textPartsUnfiltered(parts) ==
  join([i \in 1..Len(parts) |-> parts[i].text], "\n")

\* r.output.parts.filter(p => p.type === 'text').map(p => p.text).join('\n')
textParts(parts) ==
  LET kept == SelectSeq(parts, LAMBDA p : p.type = "text")
  IN join([i \in 1..Len(kept) |-> kept[i].text], "\n")

\* the text formatResults renders for one result
renderResult(r) ==
  IF r.status = "fulfilled" /\ r.output # <<>>
  THEN "Agent " \o r.agent \o ":\n" \o textParts(r.output[1].parts)
  ELSE "Agent " \o r.agent \o ": [Error: "
       \o (IF r.error # <<>> /\ r.error[1].message # ""
           THEN r.error[1].message ELSE "Unknown error")
       \o "]"

Delimiter == "\n\n---\n\n"

formatResults(rs) == join([i \in 1..Len(rs) |-> renderResult(rs[i])], Delimiter)

\* -------------------------------------------------------- ExecutionResult
Fulfilled(agent, output, duration, cost, tokensUsed) ==
  [agent |-> agent, status |-> "fulfilled", output |-> <<output>>, error |-> <<>>,
   duration |-> duration, cost |-> cost, tokensUsed |-> tokensUsed]

Rejected(agent, error, duration) ==
  [agent |-> agent, status |-> "rejected", output |-> <<>>, error |-> <<error>>,
   duration |-> duration, cost |-> 0, tokensUsed |-> [input |-> 0, output |-> 0]]

\* a cost that is never read from the answer
costOfNothing(result) == 0

\* result.info.cost || 0
costOf(result) == OrZero(result.info.cost)

\* { input: result.info.tokens?.input || 0, output: result.info.tokens?.output || 0 }
tokensOf(result) ==
  IF result.info.tokens = <<>> THEN [input |-> 0, output |-> 0]
  ELSE [input |-> result.info.tokens[1].input, output |-> result.info.tokens[1].output]

\* ------------------------------------------------------- FlowOrchestrator
\* The state an orchestrator step reads and writes, as one record.
Cur ==
  [agents |-> agents, pc |-> pc, promises |-> promises, results |-> results,
   frame |-> frame, outcome |-> outcome, calls |-> calls, events |-> events,
   cache |-> cache, files |-> files]

Apply(s) ==
  /\ agents' = s.agents
  /\ pc' = s.pc
  /\ promises' = s.promises
  /\ results' = s.results
  /\ frame' = s.frame
  /\ outcome' = s.outcome
  /\ calls' = s.calls
  /\ events' = s.events
  /\ cache' = s.cache
  /\ files' = s.files

\* the locals of a call that has not started
NoFrame ==
  [task |-> "", list |-> <<>>, startTime |-> 0,
   idx |-> 1, taskStartTime |-> 0, call |-> 0, held |-> <<>>,
   coordinatorAgent |-> <<>>, planResult |-> <<>>, workerResults |-> <<>>]

\* validateAgents that looks up the first name of the list only
validateAgentsFirstOnly(ag, list) ==
  IF Len(list) = 0
  THEN <<FlowError("At least one agent is required", "INVALID_EXECUTION",
                   [agents |-> list])>>
  ELSE IF ~has(ag, list[1])
  THEN <<FlowError("Agent not found: " \o list[1], "AGENT_NOT_FOUND",
                   [name |-> list[1]])>>
  ELSE <<>>

\* validateAgents: the error it throws, or <<>> when it returns
validateAgents(ag, list) ==
  IF Len(list) = 0
  THEN <<FlowError("At least one agent is required", "INVALID_EXECUTION",
                   [agents |-> list])>>
  ELSE IF \E i \in 1..Len(list) : ~has(ag, list[i])
  THEN LET first == CHOOSE i \in 1..Len(list) :
                       /\ ~has(ag, list[i])
                       /\ \A j \in 1..(i - 1) : has(ag, list[j])
       IN <<FlowError("Agent not found: " \o list[first], "AGENT_NOT_FOUND",
                      [name |-> list[first]])>>
  ELSE <<>>

\* execute's "emit task:completed; return results"
returns(s, rs) ==
  [s EXCEPT !.outcome = [kind |-> "returned", results |-> rs, error |-> <<>>],
            !.events = Append(@, [type |-> "task:completed", at |-> now]),
            !.pc = "done"]

\* a catch block that rethrows without emitting
throwsSilent(s, error) ==
  [s EXCEPT !.outcome = [kind |-> "threw", results |-> <<>>, error |-> <<error>>],
            !.pc = "done"]

\* execute's "catch (error) { emit task:failed; throw error }"
throws(s, error) ==
  [s EXCEPT !.outcome = [kind |-> "threw", results |-> <<>>, error |-> <<error>>],
            !.events = Append(@, [type |-> "task:failed", at |-> now]),
            !.pc = "done"]

\* ------------------------------------------------ executeParallel (125-196)
\* agents.map(async (agentName) => ...): every callback runs up to its first
\* await, in list order, before anything else can happen
RECURSIVE startBranches(_, _, _, _, _)
startBranches(s, task, list, i, role) ==
  IF i > Len(list) THEN s
  ELSE
    LET agentName == list[i] IN
    IF ~has(s.agents, agentName)
    THEN startBranches(
           [s EXCEPT !.promises = Append(@,
              [status |-> "rejected", agent |-> agentName, call |-> 0,
               taskStartTime |-> now, value |-> <<>>,
               reason |-> <<FlowError("Agent not found: " \o agentName,
                                      "AGENT_NOT_FOUND", [name |-> agentName])>>])],
           task, list, i + 1, role)
    ELSE
      LET agent == s.agents[agentName] IN
      startBranches(
        [s EXCEPT
           !.agents = updateStatus(@, agentName, "busy"),
           !.calls = Append(@, Call(agent.sessionId, AgentMessage(agent, task),
                                    [role |-> role, index |-> i])),
           !.promises = Append(@,
              [status |-> "pending", agent |-> agentName, call |-> Len(s.calls) + 1,
               taskStartTime |-> now, value |-> <<>>, reason |-> <<>>])],
        task, list, i + 1, role)

\* executeParallel up to "await Promise.allSettled(promises)":
\* [s |-> the state reached, thrown |-> the error thrown, if any]
executeParallel(s, task, list, role) ==
  LET invalid == validateAgents(s.agents, list) IN
  IF invalid # <<>> THEN [s |-> s, thrown |-> invalid]
  ELSE [s |-> startBranches(
                [s EXCEPT !.frame.task = task, !.frame.list = list,
                          !.frame.startTime = now, !.promises = <<>>],
                task, list, 1, role),
        thrown |-> <<>>]

\* the callback of promise i after its sendMessage resolved with `result`
branchFulfilled(s, i, result) ==
  LET p == s.promises[i]
      duration == now - p.taskStartTime
      cost == costOf(result)
      tokensUsed == tokensOf(result)
  IN [s EXCEPT
        !.calls = settle(@, p.call, "resolved", result),
        !.agents = updateStatus(
                     updateMetrics(@, p.agent,
                        [cost |-> <<cost>>, tokens |-> <<tokensUsed>>,
                         latency |-> <<duration>>]),
                     p.agent, "idle"),
        !.promises[i] = [p EXCEPT !.status = "fulfilled",
                           !.value = <<Fulfilled(p.agent, result, duration, cost,
                                                 tokensUsed)>>]]

\* branchRejected that rethrows the cause unwrapped
branchRejectedUnwrapped(s, i, error) ==
  LET p == s.promises[i]
  IN [s EXCEPT
        !.calls = settle(@, p.call, "rejected", error),
        !.agents = updateStatus(@, p.agent, "error"),
        !.promises[i] = [p EXCEPT !.status = "rejected",
                           !.reason = <<toError(error)>>]]

\* the callback of promise i after its sendMessage rejected with `error`
branchRejected(s, i, error) ==
  LET p == s.promises[i]
  IN [s EXCEPT
        !.calls = settle(@, p.call, "rejected", error),
        !.agents = updateStatus(@, p.agent, "error"),
        !.promises[i] = [p EXCEPT !.status = "rejected",
                           !.reason = <<TaskExecutionError(s.frame.task, p.agent,
                                                           toError(error))>>]]

allSettled(ps) == \A i \in 1..Len(ps) : ps[i].status # "pending"

\* settledResults with the results in the opposite order of the agent list
settledResultsReversed(s) ==
  [idx \in 1..Len(s.promises) |->
     LET k == Len(s.promises) + 1 - idx IN
     IF s.promises[k].status = "fulfilled"
     THEN s.promises[k].value[1]
     ELSE Rejected(s.frame.list[k], s.promises[k].reason[1],
                   now - s.frame.startTime)]

\* results.map((result, idx) => ...) after Promise.allSettled
settledResults(s) ==
  [idx \in 1..Len(s.promises) |->
     IF s.promises[idx].status = "fulfilled"
     THEN s.promises[idx].value[1]
     ELSE Rejected(s.frame.list[idx], s.promises[idx].reason[1],
                   now - s.frame.startTime)]

\* ---------------------------------------------- executeSequential (198-274)
\* one turn of "for (const agentName of agents)" up to its await of sendMessage,
\* or the return after the last turn
sequentialLoop(s, ex) ==
  IF s.frame.idx > Len(ex.agents) THEN returns(s, s.results)
  ELSE
    LET agentName == ex.agents[s.frame.idx] IN
    IF ~has(s.agents, agentName)
    THEN throws(s, FlowError("Agent not found: " \o agentName, "AGENT_NOT_FOUND",
                             [name |-> agentName]))
    ELSE
      LET agent == s.agents[agentName]
          contextualTask == ex.task
          augmentedTask ==
            IF Len(s.results) > 0
            THEN contextualTask \o "\n\nPrevious agent results:\n"
                 \o formatResults(s.results)
            ELSE contextualTask
      IN [s EXCEPT
            !.agents = updateStatus(@, agentName, "busy"),
            !.calls = Append(@, Call(agent.sessionId, AgentMessage(agent, augmentedTask),
                                     [role |-> "sequential", index |-> s.frame.idx])),
            !.frame.call = Len(s.calls) + 1,
            !.frame.taskStartTime = now,
            !.pc = "sequential_send"]

\* executeSequential from its call to its first await
executeSequential(s, ex) ==
  LET invalid == validateAgents(s.agents, ex.agents) IN
  IF invalid # <<>> THEN throws(s, invalid[1])
  ELSE sequentialLoop([s EXCEPT !.results = <<>>, !.frame.idx = 1], ex)

\* sequentialResolved without the memory.set
sequentialResolvedNoStore(s, ex, result) ==
  LET agentName == ex.agents[s.frame.idx]
      duration == now - s.frame.taskStartTime
      cost == costOf(result)
      tokensUsed == tokensOf(result)
      key == agentName \o "_result"
      entry == MemoryEntry(key, result, <<>>)
  IN [s EXCEPT
        !.calls = settle(@, s.frame.call, "resolved", result),
        !.agents = updateMetrics(@, agentName,
                      [cost |-> <<cost>>, tokens |-> <<tokensUsed>>,
                       latency |-> <<duration>>]),
        !.frame.held = <<[entry |-> entry,
                          executionResult |-> Fulfilled(agentName, result, duration,
                                                        cost, tokensUsed)]>>,
        !.pc = "sequential_store"]

\* lines 229-242: sendMessage resolved; metrics, then memory.set up to its
\* await of fs.writeFile (the cache is written before that await)
sequentialResolved(s, ex, result) ==
  LET agentName == ex.agents[s.frame.idx]
      duration == now - s.frame.taskStartTime
      cost == costOf(result)
      tokensUsed == tokensOf(result)
      key == agentName \o "_result"
      entry == MemoryEntry(key, result, <<>>)
  IN [s EXCEPT
        !.calls = settle(@, s.frame.call, "resolved", result),
        !.agents = updateMetrics(@, agentName,
                      [cost |-> <<cost>>, tokens |-> <<tokensUsed>>,
                       latency |-> <<duration>>]),
        !.cache = Put(@, key, entry),
        !.frame.held = <<[entry |-> entry,
                          executionResult |-> Fulfilled(agentName, result, duration,
                                                        cost, tokensUsed)]>>,
        !.pc = "sequential_store"]

\* lines 33-38 of memory.ts and 244-255 of flow.ts: fs.writeFile settled
\* (written = FALSE: it failed and set() logged the error), then the result is
\* pushed, the agent is marked idle and the loop goes on
sequentialStored(s, ex, written) ==
  LET agentName == ex.agents[s.frame.idx]
      held == s.frame.held[1]
      s1 == [s EXCEPT
               !.files = IF written
                         THEN Put(@, getFilePath(held.entry.key), held.entry)
                         ELSE @,
               !.results = Append(@, held.executionResult),
               !.agents = updateStatus(@, agentName, "idle"),
               !.frame.held = <<>>,
               !.frame.idx = @ + 1]
  IN sequentialLoop(s1, ex)

\* sequentialRejected without the break: the loop goes on with the next agent
sequentialRejectedNoBreak(s, ex, error) ==
  LET agentName == ex.agents[s.frame.idx]
      s1 == [s EXCEPT
               !.calls = settle(@, s.frame.call, "rejected", error),
               !.agents = updateStatus(@, agentName, "error"),
               !.results = Append(@, Rejected(agentName, toError(error), 0)),
               !.frame.idx = @ + 1]
  IN sequentialLoop(s1, ex)

\* lines 256-270: sendMessage rejected; the loop breaks
sequentialRejected(s, ex, error) ==
  LET agentName == ex.agents[s.frame.idx]
      s1 == [s EXCEPT
               !.calls = settle(@, s.frame.call, "rejected", error),
               !.agents = updateStatus(@, agentName, "error"),
               !.results = Append(@, Rejected(agentName, toError(error), 0))]
  IN returns(s1, s1.results)

\* -------------------------------------------- executeHierarchical (276-367)
coordinationPrompt(task, workers) ==
  "\nYou are coordinating a task with the following workers: "
  \o join(workers, ", ")
  \o "\n\nTask: " \o task
  \o "\n\nPlease break down this task into subtasks for each worker. Store your plan in shared memory using the key 'coordination_plan'.\nThen, instruct each worker on their specific subtask.\n"

workerPrompt(task) ==
  "Execute the subtask assigned to you by the coordinator for the main task: " \o task

aggregationPrompt(task, workerResults) ==
  "\nBased on the following worker results, provide a final consolidated answer to the original task.\n\nOriginal task: "
  \o task
  \o "\n\nWorker results:\n" \o formatResults(workerResults)
  \o "\n\nPlease provide a comprehensive final result.\n"

\* the catch block without the status update
hierarchicalCatchNoStatus(s, ex, error) ==
  throws(s, TaskExecutionError(ex.task, ex.agents[1], toError(error)))

\* the catch block of executeHierarchical (359-366)
hierarchicalCatch(s, ex, error) ==
  throws([s EXCEPT !.agents = updateStatus(@, ex.agents[1], "error")],
         TaskExecutionError(ex.task, ex.agents[1], toError(error)))

\* executeHierarchical from its call to its await of the planning prompt
executeHierarchical(s, ex) ==
  LET coordinator == ex.agents[1]
      workers == Tail(ex.agents)
      invalid == validateAgents(s.agents, <<coordinator>> \o workers)
  IN
  IF invalid # <<>> THEN throws(s, invalid[1])
  ELSE IF ~has(s.agents, coordinator)
  THEN throws(s, FlowError("Coordinator agent not found: " \o coordinator,
                           "AGENT_NOT_FOUND", [name |-> coordinator]))
  ELSE
    LET coordinatorAgent == s.agents[coordinator] IN
    [s EXCEPT
       !.agents = updateStatus(@, coordinator, "busy"),
       !.frame.coordinatorAgent = <<coordinatorAgent>>,
       !.frame.taskStartTime = now,
       !.calls = Append(@, Call(coordinatorAgent.sessionId,
                    CoordinatorMessage(coordinatorAgent,
                                       coordinationPrompt(ex.task, workers)),
                    [role |-> "plan", index |-> 0])),
       !.frame.call = Len(s.calls) + 1,
       !.pc = "hierarchical_plan"]

\* lines 302-313: the planning prompt resolved; the workers are started
planResolved(s, ex, planResult) ==
  LET s1 == [s EXCEPT !.calls = settle(@, s.frame.call, "resolved", planResult),
                      !.frame.planResult = <<planResult>>]
      started == executeParallel(s1, workerPrompt(ex.task), Tail(ex.agents), "worker")
  IN IF started.thrown # <<>>
     THEN hierarchicalCatch(started.s, ex, started.thrown[1])
     ELSE [started.s EXCEPT !.pc = "hierarchical_workers"]

\* lines 315-331: the workers' results are in; the aggregation prompt is sent
aggregate(s, ex, workerResults) ==
  LET coordinatorAgent == s.frame.coordinatorAgent[1] IN
  [s EXCEPT
     !.frame.workerResults = workerResults,
     !.calls = Append(@, Call(coordinatorAgent.sessionId,
                  CoordinatorMessage(coordinatorAgent,
                                     aggregationPrompt(ex.task, workerResults)),
                  [role |-> "aggregate", index |-> 0])),
     !.frame.call = Len(s.calls) + 1,
     !.pc = "hierarchical_aggregate"]

\* the totals without the planning call
hierarchicalTotalsNoPlan(planResult, finalResult, workerResults) ==
  [cost   |-> costOf(finalResult)
              + Sum([i \in 1..Len(workerResults) |-> workerResults[i].cost]),
   input  |-> tokensOf(finalResult).input
              + Sum([i \in 1..Len(workerResults) |->
                       workerResults[i].tokensUsed.input]),
   output |-> tokensOf(finalResult).output
              + Sum([i \in 1..Len(workerResults) |->
                       workerResults[i].tokensUsed.output])]

\* lines 334-341: totalCost and totalTokens
hierarchicalTotals(planResult, finalResult, workerResults) ==
  [cost   |-> costOf(planResult) + costOf(finalResult)
              + Sum([i \in 1..Len(workerResults) |-> workerResults[i].cost]),
   input  |-> tokensOf(planResult).input + tokensOf(finalResult).input
              + Sum([i \in 1..Len(workerResults) |->
                       workerResults[i].tokensUsed.input]),
   output |-> tokensOf(planResult).output + tokensOf(finalResult).output
              + Sum([i \in 1..Len(workerResults) |->
                       workerResults[i].tokensUsed.output])]

\* lines 333-358: the aggregation prompt resolved
aggregateResolved(s, ex, finalResult) ==
  LET coordinator == ex.agents[1]
      planResult == s.frame.planResult[1]
      workerResults == s.frame.workerResults
      duration == now - s.frame.taskStartTime
      totals == hierarchicalTotals(planResult, finalResult, workerResults)
      totalCost == totals.cost
      totalTokens == [input |-> totals.input, output |-> totals.output]
      s1 == [s EXCEPT
               !.calls = settle(@, s.frame.call, "resolved", finalResult),
               !.agents = updateStatus(
                            updateMetrics(@, coordinator,
                               [cost |-> <<totalCost>>, tokens |-> <<totalTokens>>,
                                latency |-> <<duration>>]),
                            coordinator, "idle")]
  IN returns(s1, <<Fulfilled(coordinator, finalResult, duration, totalCost,
                             totalTokens)>>)

\* --------------------------------------------------------- execute (81-123)
\* the precondition of hierarchical mode, off by one
tooFewForHierarchyOffByOne(list) == Len(list) < 1

\* line 97: execution.agents.length < 2
tooFewForHierarchy(list) == Len(list) < 2

\* execute from its call to the first await it is suspended at
execute(s, ex) ==
  LET mode == IF ex.mode = <<>> THEN "parallel" ELSE ex.mode[1]
      s0 == [s EXCEPT !.events = Append(@, [type |-> "task:started", at |-> now])]
  IN
  CASE mode = "parallel" ->
         LET started == executeParallel(s0, ex.task, ex.agents, "parallel") IN
         IF started.thrown # <<>> THEN throws(started.s, started.thrown[1])
         ELSE [started.s EXCEPT !.pc = "parallel"]
    [] mode = "sequential" -> executeSequential(s0, ex)
    [] mode = "hierarchical" ->
         IF tooFewForHierarchy(ex.agents)
         THEN throws(s0, FlowError(
                "Hierarchical mode requires at least 2 agents (1 coordinator + 1 worker)",
                "INVALID_EXECUTION",
                [mode |-> "hierarchical", agentCount |-> Len(ex.agents)]))
         ELSE executeHierarchical(s0, ex)
    [] OTHER ->
         throws(s0, FlowError("Unknown execution mode: " \o mode, "INVALID_EXECUTION",
                              [mode |-> mode]))

\* afterBranch with a rejected worker failing the hierarchical run
afterBranchFailFast(s, ex) ==
  IF ~allSettled(s.promises) THEN s
  ELSE IF s.pc = "parallel" THEN returns(s, settledResults(s))
  ELSE IF \E i \in 1..Len(s.promises) : s.promises[i].status = "rejected"
  THEN hierarchicalCatch(s, ex,
         s.promises[CHOOSE i \in 1..Len(s.promises) :
                      s.promises[i].status = "rejected"].reason[1])
  ELSE aggregate(s, ex, settledResults(s))

\* what follows the settling of a parallel promise: nothing while another is
\* pending, else the return of executeParallel to its caller
afterBranch(s, ex) ==
  IF ~allSettled(s.promises) THEN s
  ELSE IF s.pc = "parallel" THEN returns(s, settledResults(s))
  ELSE aggregate(s, ex, settledResults(s))

\* ================================================ AgentManager lifecycle
\* s.includes(sub)
includes(s, sub) ==
  \E i \in 1..(Len(s) - Len(sub) + 1) : SubSeq(s, i, i + Len(sub) - 1) = sub

AgentSpawnError(agentName, cause) ==
  [name    |-> "AgentSpawnError",
   message |-> "Failed to spawn agent: " \o agentName,
   code    |-> "AGENT_SPAWN_FAILED",
   details |-> [agentName |-> agentName, cause |-> cause]]

\* validateConfig that does not look at the temperature
validateConfigNoTemperature(config) ==
  IF config.name = ""
  THEN <<FlowError("Agent name is required", "INVALID_CONFIG", [field |-> "name"])>>
  ELSE IF config.agent = ""
  THEN <<FlowError("Agent type is required", "INVALID_CONFIG", [field |-> "agent"])>>
  ELSE IF config.model = ""
  THEN <<FlowError("Model is required", "INVALID_CONFIG", [field |-> "model"])>>
  ELSE IF includes(config.name, " ")
  THEN <<FlowError("Agent name cannot contain spaces", "INVALID_CONFIG",
                   [field |-> "name", value |-> config.name])>>
  ELSE <<>>

\* validateConfig: the error it throws, or <<>> when it returns.  The
\* temperature is counted in tenths.
validateConfig(config) ==
  IF config.name = ""
  THEN <<FlowError("Agent name is required", "INVALID_CONFIG", [field |-> "name"])>>
  ELSE IF config.agent = ""
  THEN <<FlowError("Agent type is required", "INVALID_CONFIG", [field |-> "agent"])>>
  ELSE IF config.model = ""
  THEN <<FlowError("Model is required", "INVALID_CONFIG", [field |-> "model"])>>
  ELSE IF includes(config.name, " ")
  THEN <<FlowError("Agent name cannot contain spaces", "INVALID_CONFIG",
                   [field |-> "name", value |-> config.name])>>
  ELSE IF config.temperature # <<>>
          /\ (config.temperature[1] < 0 \/ config.temperature[1] > 10)
  THEN <<FlowError("Temperature must be between 0 and 1", "INVALID_CONFIG",
                   [field |-> "temperature", value |-> config.temperature[1]])>>
  ELSE <<>>

\* the id the remote service gives to the k-th session it creates
SessionId(k) == "session-" \o ToString(k)

\* the AgentInstance spawn builds (51-64)
Handle(config, sessionId) ==
  [name         |-> config.name,
   sessionId    |-> sessionId,
   config       |-> config,
   status       |-> "idle",
   createdAt    |-> now,
   lastActivity |-> now,
   metrics      |-> <<[tasksCompleted |-> 0, totalCost |-> 0,
                       totalTokens |-> [input |-> 0, output |-> 0],
                       averageLatency |-> [n |-> 0, d |-> 1]]>>]

\* f without key k
Drop(f, k) == [x \in DOMAIN f \ {k} |-> f[x]]

\* the handle registered under a name, as an optional value
Lookup(ag, name) == IF name \in DOMAIN ag THEN <<ag[name]>> ELSE <<>>

\* the object with this session id is in the registry
Registered(ag, sid) == \E n \in DOMAIN ag : ag[n].sessionId = sid

\* the object with this session id: in the registry, or detached from it
Obj(ag, det, sid) ==
  IF Registered(ag, sid)
  THEN ag[CHOOSE n \in DOMAIN ag : ag[n].sessionId = sid]
  ELSE det[sid]

\* the state a lifecycle step reads and writes, as one record
Reg ==
  [agents |-> agents, detached |-> detached, sessions |-> sessions, ops |-> ops,
   intervals |-> intervals, probes |-> probes, waits |-> waits, events |-> events]

ApplyReg(s) ==
  /\ agents' = s.agents
  /\ detached' = s.detached
  /\ sessions' = s.sessions
  /\ ops' = s.ops
  /\ intervals' = s.intervals
  /\ probes' = s.probes
  /\ waits' = s.waits
  /\ events' = s.events

\* this.agents.set(name, agent): an object the name was bound to is detached
setAgent(s, name, agent) ==
  [s EXCEPT !.detached = IF name \in DOMAIN s.agents
                              /\ s.agents[name].sessionId # agent.sessionId
                         THEN Put(Drop(@, agent.sessionId),
                                  s.agents[name].sessionId, s.agents[name])
                         ELSE Drop(@, agent.sessionId),
            !.agents = Put(@, name, agent)]

\* this.agents.delete(name): the object stays reachable from the closures
\* that captured it
deleteAgent(s, name) ==
  IF name \notin DOMAIN s.agents THEN s
  ELSE [s EXCEPT !.detached = Put(@, s.agents[name].sessionId, s.agents[name]),
                 !.agents = Drop(@, name)]

\* one call of a lifecycle operation: sid is the session the call created
\* (spawn) or the session of the handle it captured (terminate)
Op(op, arg) ==
  [op |-> op, arg |-> arg, pc |-> "called", stage |-> "called", sid |-> "",
   parent |-> 0,
   outcome |-> [kind |-> "pending", value |-> <<>>, error |-> <<>>]]

opReturns(frame_, value) ==
  [frame_ EXCEPT !.pc = "done",
                 !.outcome = [kind |-> "returned", value |-> value, error |-> <<>>]]

\* stage keeps the point the call had reached when it failed
opThrows(frame_, error) ==
  [frame_ EXCEPT !.pc = "done", !.stage = frame_.pc,
                 !.outcome = [kind |-> "threw", value |-> <<>>, error |-> <<error>>]]

HEALTH_CHECK_INTERVAL == 10000

HEALTH_CHECK_TIMEOUT == 30000

\* the elements of a finite set, in some order
RECURSIVE SetToSeq(_)
SetToSeq(S) ==
  IF S = {} THEN <<>>
  ELSE LET x == CHOOSE y \in S : TRUE IN <<x>> \o SetToSeq(S \ {x})

\* ------------------------------------------------------- spawn (22-78)
\* the catch block of spawn rethrowing the error as it is
spawnCatchRethrow(agentName, error) == toError(error)

\* the catch block of spawn (72-77)
spawnCatch(agentName, error) == AgentSpawnError(agentName, toError(error))

\* startHealthCheck (238-256): the interval is armed; its callback is ProbeFire
startHealthCheck(s, sid) ==
  [s EXCEPT !.intervals = Put(@, sid, now + HEALTH_CHECK_INTERVAL)]

\* stopHealthCheck (258-263)
stopHealthCheck(s, sid) ==
  [s EXCEPT !.intervals = Drop(@, sid)]

\* the check of line 26 that never finds the name
alreadyExistsNever(ag, name) == FALSE

\* line 26: this.agents.has(config.name)
alreadyExists(ag, name) == has(ag, name)

\* spawn from its call to its await of createSession
spawnCall(s, config) ==
  LET frame_ == Op("spawn", config)
      invalid == validateConfig(config)
  IN
  IF invalid # <<>>
  THEN [s EXCEPT !.ops = Append(@, opThrows(frame_, spawnCatch(config.name, invalid[1])))]
  ELSE IF alreadyExists(s.agents, config.name)
  THEN [s EXCEPT !.ops = Append(@, opThrows(frame_, spawnCatch(config.name,
                    FlowError("Agent with name '" \o config.name \o "' already exists",
                              "AGENT_EXISTS", [name |-> config.name]))))]
  ELSE [s EXCEPT !.sessions = @ + 1,
                 !.ops = Append(@, [frame_ EXCEPT !.pc = "create",
                                                  !.sid = SessionId(s.sessions + 1)])]

\* lines 51-71: the handle is built, registered and supervised
register(s, o) ==
  LET config == s.ops[o].arg
      agent == Handle(config, s.ops[o].sid)
      s1 == startHealthCheck(setAgent(s, config.name, agent), agent.sessionId)
  IN [s1 EXCEPT
        !.events = Append(@, [type |-> "agent:spawned", at |-> now,
                              name |-> config.name, sessionId |-> agent.sessionId]),
        !.ops[o] = opReturns(@, <<agent.sessionId>>)]

\* createSession resolved: the system prompt is sent if there is one
createResolved(s, o) ==
  LET config == s.ops[o].arg IN
  IF config.systemPrompt # <<>> /\ config.systemPrompt[1] # ""
  THEN [s EXCEPT !.ops[o].pc = "prompt"]
  ELSE register(s, o)

\* createSession or the system prompt's sendMessage rejected that registers
\* the handle all the same
spawnRejectedRegisters(s, o, error) ==
  LET s1 == register(s, o) IN
  [s1 EXCEPT !.ops[o] = opThrows(s.ops[o], spawnCatch(s.ops[o].arg.name, error))]

\* createSession or the system prompt's sendMessage rejected
spawnRejected(s, o, error) ==
  [s EXCEPT !.ops[o] = opThrows(@, spawnCatch(s.ops[o].arg.name, error))]

\* --------------------------------------------------- terminate (80-101)
\* Promise.all of terminateAll: the parent call returns once every child has
\* returned, and fails as soon as one has failed
settleParent(s, p) ==
  IF p = 0 \/ s.ops[p].pc = "done" THEN s
  ELSE LET kids == { k \in 1..Len(s.ops) : s.ops[k].parent = p } IN
       IF \E k \in kids : s.ops[k].outcome.kind = "threw"
       THEN LET k == CHOOSE k \in kids : s.ops[k].outcome.kind = "threw" IN
            [s EXCEPT !.ops[p] = opThrows(@, s.ops[k].outcome.error[1])]
       ELSE IF \A k \in kids : s.ops[k].outcome.kind = "returned"
       THEN [s EXCEPT !.ops[p] = opReturns(@, <<>>)]
       ELSE s

\* terminate from its call to its await of deleteSession
terminateCall(s, name, parent) ==
  LET frame_ == [Op("terminate", name) EXCEPT !.parent = parent]
      agent == Lookup(s.agents, name)
  IN
  IF agent = <<>>
  THEN settleParent(
         [s EXCEPT !.ops = Append(@, opThrows(frame_,
                      FlowError("Agent not found: " \o name, "AGENT_NOT_FOUND",
                                [name |-> name])))],
         parent)
  ELSE LET s1 == stopHealthCheck(s, agent[1].sessionId) IN
       [s1 EXCEPT !.ops = Append(@, [frame_ EXCEPT !.pc = "delete",
                                                   !.sid = agent[1].sessionId])]

\* deleteSession settled, with a failure that terminate lets through
deleteSettledPropagates(s, o, deleted) ==
  LET name == s.ops[o].arg IN
  IF ~deleted
  THEN settleParent(
         [s EXCEPT !.ops[o] = opThrows(@, FlowError("Failed to delete session: "
                                 \o s.ops[o].sid, "SESSION_DELETE_FAILED", <<>>))],
         s.ops[o].parent)
  ELSE LET removed == Lookup(s.agents, name)
           s1 == deleteAgent(s, name)
       IN settleParent(
            [s1 EXCEPT
               !.events = Append(@, [type |-> "agent:terminated", at |-> now,
                                     name |-> name,
                                     sessionId |-> IF removed = <<>> THEN ""
                                                   ELSE removed[1].sessionId]),
               !.ops[o] = opReturns(@, <<>>)],
            s.ops[o].parent)

\* lines 93-100: deleteSession settled (deleted = FALSE: it failed and the
\* failure was logged); the name is removed and agent:terminated is emitted
deleteSettled(s, o, deleted) ==
  LET name == s.ops[o].arg
      removed == Lookup(s.agents, name)
      s1 == deleteAgent(s, name)
  IN settleParent(
       [s1 EXCEPT
          !.events = Append(@, [type |-> "agent:terminated", at |-> now,
                                name |-> name,
                                sessionId |-> IF removed = <<>> THEN ""
                                              ELSE removed[1].sessionId]),
          !.ops[o] = opReturns([@ EXCEPT !.stage = IF deleted THEN "deleted"
                                                   ELSE "delete failed"], <<>>)],
       s.ops[o].parent)

\* ------------------------------------------------ terminateAll (103-106)
\* names.map(name => this.terminate(name)): every call runs up to its await
RECURSIVE terminateEach(_, _, _)
terminateEach(s, names, parent) ==
  IF names = <<>> THEN s
  ELSE terminateEach(terminateCall(s, Head(names), parent), Tail(names), parent)

\* terminateAll that stops after the first name
terminateAllFirstOnly(s) ==
  LET names == SetToSeq(DOMAIN s.agents)
      p == Len(s.ops) + 1
      s1 == [s EXCEPT !.ops = Append(@, [Op("terminateAll", names) EXCEPT !.pc = "all"])]
  IN settleParent(
       IF names = <<>> THEN s1 ELSE terminateCall(s1, Head(names), p), p)

\* terminateAll from its call to its await of Promise.all
terminateAll(s) ==
  LET names == SetToSeq(DOMAIN s.agents)
      p == Len(s.ops) + 1
      s1 == [s EXCEPT !.ops = Append(@, [Op("terminateAll", names) EXCEPT !.pc = "all"])]
  IN settleParent(terminateEach(s1, names, p), p)

\* ------------------------------------------------- waitForIdle (159-194)
\* the delay of setTimeout(checkStatus, 100)
POLL_INTERVAL == 100

\* the object with this session id, changed by f
SetObj(s, sid, field, value) ==
  IF Registered(s.agents, sid)
  THEN LET n == CHOOSE n \in DOMAIN s.agents : s.agents[n].sessionId = sid IN
       [s EXCEPT !.agents[n] = [@ EXCEPT ![field] = value]]
  ELSE [s EXCEPT !.detached[sid] = [@ EXCEPT ![field] = value]]

\* one call of waitForIdle: sid is the session of the captured handle,
\* timeoutAt and pollAt are the deadlines of the armed timers, gone says
\* whether the handle was out of the registry when the promise settled
Wait(name, timeoutMs) ==
  [name |-> name, timeoutMs |-> timeoutMs, sid |-> "", calledAt |-> now,
   state |-> "pending", error |-> <<>>, settledAt |-> <<>>, gone |-> FALSE,
   timeoutAt |-> <<>>, pollAt |-> <<>>]

\* resolve() or reject(error): only the first settlement counts
waitSettles(s, w, state, error) ==
  IF s.waits[w].state # "pending" THEN s
  ELSE [s EXCEPT !.waits[w].state = state,
                 !.waits[w].error = error,
                 !.waits[w].settledAt = <<now>>,
                 !.waits[w].gone = ~Registered(s.agents, s.waits[w].sid)]

\* waitForIdle from its call to the promise it returns
waitForIdle(s, name, timeoutMs) ==
  LET w == Len(s.waits) + 1
      agent == Lookup(s.agents, name)
      s1 == [s EXCEPT !.waits = Append(@, Wait(name, timeoutMs))]
  IN
  IF agent = <<>>
  THEN [s1 EXCEPT !.waits[w].state = "rejected",
                  !.waits[w].settledAt = <<now>>,
                  !.waits[w].gone = TRUE,
                  !.waits[w].error =
                     <<FlowError("Agent not found: " \o name, "AGENT_NOT_FOUND",
                                 [name |-> name])>>]
  ELSE IF agent[1].status = "idle"
  THEN [s1 EXCEPT !.waits[w].sid = agent[1].sessionId,
                  !.waits[w].state = "resolved",
                  !.waits[w].settledAt = <<now>>]
  ELSE [s1 EXCEPT !.waits[w].sid = agent[1].sessionId,
                  !.waits[w].timeoutAt = <<now + timeoutMs>>,
                  !.waits[w].pollAt = <<now + POLL_INTERVAL>>]

\* the timeout callback that never rejects
timeoutFiredSilent(s, w) ==
  [s EXCEPT !.waits[w].timeoutAt = <<>>]

\* lines 175-181: the timeout callback
timeoutFired(s, w) ==
  LET s1 == waitSettles(s, w, "rejected",
              <<FlowError("Agent " \o s.waits[w].name \o " did not become idle within "
                            \o ToString(s.waits[w].timeoutMs) \o "ms",
                          "WAIT_TIMEOUT",
                          [name |-> s.waits[w].name,
                           timeoutMs |-> s.waits[w].timeoutMs])>>)
  IN [s1 EXCEPT !.waits[w].timeoutAt = <<>>]

\* lines 183-190: checkStatus, called by its timer
checkStatus(s, w) ==
  IF Obj(s.agents, s.detached, s.waits[w].sid).status = "idle"
  THEN LET s1 == waitSettles(s, w, "resolved", <<>>) IN
       [s1 EXCEPT !.waits[w].timeoutAt = <<>>, !.waits[w].pollAt = <<>>]
  ELSE [s EXCEPT !.waits[w].pollAt = <<now + POLL_INTERVAL>>]

\* --------------------------------------------- health probe (238-256)
\* the interval fired: the callback runs up to its await of getSession
probeFired(s, sid) ==
  [s EXCEPT !.intervals[sid] = @ + HEALTH_CHECK_INTERVAL,
            !.probes = @ \cup {[sid |-> sid, firedAt |-> now]}]

\* line 242: getSession resolved
probeResolved(s, p) ==
  [SetObj(s, p.sid, "lastActivity", now) EXCEPT !.probes = @ \ {p}]

\* lines 243-252: getSession rejected
probeRejected(s, p) ==
  LET agent == Obj(s.agents, s.detached, p.sid)
      s0 == [s EXCEPT !.probes = @ \ {p}]
  IN
  IF now - agent.lastActivity > HEALTH_CHECK_TIMEOUT
  THEN LET removed == Lookup(s0.agents, agent.name)
           s1 == deleteAgent(stopHealthCheck(s0, p.sid), agent.name)
       IN [s1 EXCEPT
             !.events = Append(@, [type |-> "agent:terminated", at |-> now,
                                   name |-> agent.name,
                                   sessionId |-> IF removed = <<>> THEN ""
                                                 ELSE removed[1].sessionId])]
  ELSE s0

\* ------------------------------------------- FileMemoryBackend, call by call
\* JavaScript values: the kinds the tests store, and those JSON treats apart
JsString(s) == [t |-> "string", s |-> s]
JsNumber(n) == [t |-> "number", n |-> n]
JsNaN == [t |-> "number", nan |-> TRUE]
JsBoolean(b) == [t |-> "boolean", b |-> b]
JsArray(items) == [t |-> "array", items |-> items]
JsObject(props) == [t |-> "object", props |-> props]
JsNull == [t |-> "null"]
JsUndefined == [t |-> "undefined"]

IsNaN(v) == v.t = "number" /\ "nan" \in DOMAIN v

\* JSON.stringify(value): the JSON text as a tree; an undefined property is
\* left out, an undefined array item and JsNaN become null
RECURSIVE stringify(_)
stringify(v) ==
  CASE v.t = "string" -> [j |-> "string", s |-> v.s]
    [] v.t = "number" -> IF IsNaN(v) THEN [j |-> "null"] ELSE [j |-> "number", n |-> v.n]
    [] v.t = "boolean" -> [j |-> "boolean", b |-> v.b]
    [] v.t = "array" ->
         [j |-> "array",
          items |-> [i \in 1..Len(v.items) |->
                       IF v.items[i].t = "undefined" THEN [j |-> "null"]
                       ELSE stringify(v.items[i])]]
    [] v.t = "object" ->
         [j |-> "object",
          props |-> [n \in {m \in DOMAIN v.props : v.props[m].t # "undefined"} |->
                       stringify(v.props[n])]]
    [] OTHER -> [j |-> "null"]

\* JSON.parse(text)
RECURSIVE parse(_)
parse(json) ==
  CASE json.j = "string" -> JsString(json.s)
    [] json.j = "number" -> JsNumber(json.n)
    [] json.j = "boolean" -> JsBoolean(json.b)
    [] json.j = "array" -> JsArray([i \in 1..Len(json.items) |-> parse(json.items[i])])
    [] json.j = "object" -> JsObject([n \in DOMAIN json.props |-> parse(json.props[n])])
    [] OTHER -> JsNull

\* what JSON.parse reads back from the JSON.stringify(entry) that set() wrote
persisted(entry) ==
  [entry EXCEPT !.value = IF @.t = "undefined" THEN JsUndefined
                          ELSE parse(stringify(@))]

\* the store before any call: no call in progress, none returned
NoStore == [pending |-> {}, last |-> <<>>]

\* the state a FileMemoryBackend call reads and writes, as one record
Mem == [cache |-> cache, files |-> files, store |-> store]

ApplyMem(s) ==
  /\ cache' = s.cache
  /\ files' = s.files
  /\ store' = s.store

\* fs.mkdir(storePath, { recursive: true }) has made the directory
DirExists(fs) == StorePath \in DOMAIN fs

mkdir(fs) == Put(fs, StorePath, [directory |-> TRUE])

\* the paths of the files in the store directory
Listing(fs) == DOMAIN fs \ {StorePath}

\* String.prototype.replace(pattern, by) with a string pattern: the first
\* occurrence only
RECURSIVE replace(_, _, _)
replace(str, pattern, by) ==
  IF Len(str) < Len(pattern) THEN str
  ELSE IF SubSeq(str, 1, Len(pattern)) = pattern
  THEN by \o SubSeq(str, Len(pattern) + 1, Len(str))
  ELSE SubSeq(str, 1, 1) \o replace(SubSeq(str, 2, Len(str)), pattern, by)

endsWith(str, suffix) ==
  Len(str) >= Len(suffix)
  /\ SubSeq(str, Len(str) - Len(suffix) + 1, Len(str)) = suffix

\* the name readdir reports for a path under storePath
FileName(path) == SubSeq(path, Len(StorePath) + 2, Len(path))

\* lines 74-83: what listKeys() returns from a directory in this state
listKeys(fs) ==
  IF ~DirExists(fs) THEN {}
  ELSE {replace(FileName(path), ".json", "") :
          path \in {q \in Listing(fs) : endsWith(FileName(q), ".json")}}

\* a call returned: it leaves the calls in progress and becomes the last return
returned(s, call, result) ==
  [s EXCEPT !.store.pending = @ \ {call},
            !.store.last = <<[op |-> call.op, key |-> call.key, value |-> call.value,
                              ttl |-> call.ttl,
                              result |-> result]>>]

\* a call as it starts
MemCall(s, op, key, value, ttl) ==
  [op |-> op, key |-> key, value |-> value, ttl |-> ttl,
   pc |-> "", entry |-> <<>>, listed |-> {}]

\* a call starts: the last return is no longer the latest thing the store did
started(s) == [s EXCEPT !.store.last = <<>>]

suspend(s, call, point) ==
  [s EXCEPT !.store.pending = @ \cup {[call EXCEPT !.pc = point]}]

\* set() that leaves the write to the file alone, without cache.set
setUncached(s, key, value, ttl) ==
  LET call == MemCall(s, "set", key, value, ttl)
  IN suspend(started(s),
             [call EXCEPT !.entry = <<MemoryEntry(key, value, ttl)>>], "writeFile")

\* set() that keeps the expiry of the entry it replaces when no ttl is given
setKeepExpiry(s, key, value, ttl) ==
  LET call == MemCall(s, "set", key, value, ttl)
      fresh == MemoryEntry(key, value, ttl)
      entry == IF ttl = <<>> /\ key \in DOMAIN s.cache
               THEN [fresh EXCEPT !.expiresAt = s.cache[key].expiresAt]
               ELSE fresh
  IN suspend([started(s) EXCEPT !.cache = Put(@, key, entry)],
             [call EXCEPT !.entry = <<entry>>], "writeFile")

\* lines 22-35: set() up to its await of fs.writeFile
set(s, key, value, ttl) ==
  LET call == MemCall(s, "set", key, value, ttl)
      entry == MemoryEntry(key, value, ttl)
  IN suspend([started(s) EXCEPT !.cache = Put(@, key, entry)],
             [call EXCEPT !.entry = <<entry>>], "writeFile")

\* lines 35-38: fs.writeFile settled; it fails when the directory is missing
writeSettled(s, call) ==
  returned(IF DirExists(s.files)
           THEN [s EXCEPT !.files = Put(@, getFilePath(call.key),
                                        persisted(call.entry[1]))]
           ELSE s,
           call, <<>>)

\* delete() that unlinks the file and leaves the cache alone
deleteFileOnly(s, call, point) == suspend(s, call, point)

\* lines 63-68: delete() up to its await of fs.unlink, on behalf of `call`
delete(s, call, point) ==
  suspend([s EXCEPT !.cache = Drop(@, call.key)], call, point)

\* lines 68-71: fs.unlink settled (a missing file is ignored)
unlinkSettled(s, call) ==
  [s EXCEPT !.files = Drop(@, getFilePath(call.key))]

\* get() that never looks at expiresAt
expiredNever(entry) == FALSE

\* line 55: entry.expiresAt && Date.now() > entry.expiresAt
expired(entry) == entry.expiresAt # <<>> /\ now > entry.expiresAt[1]

\* lines 55-60: get() from the entry it found
getFound(s, call, entry) ==
  IF expired(entry) THEN delete(s, call, "unlink")
  ELSE returned(s, call, <<entry.value>>)

\* lines 41-47: get() up to its first await, or to its return
getCall(s, key) ==
  LET call == MemCall(s, "get", key, <<>>, <<>>) IN
  IF key \in DOMAIN s.cache THEN getFound(started(s), call, s.cache[key])
  ELSE suspend(started(s), call, "readFile")

\* lines 47-53: fs.readFile settled
readSettled(s, call) ==
  LET path == getFilePath(call.key)
      s0 == [s EXCEPT !.store.pending = @ \ {call}]
  IN
  IF path \in Listing(s.files)
  THEN getFound([s0 EXCEPT !.cache = Put(@, call.key, s.files[path])],
                call, s.files[path])
  ELSE returned(s0, call, <<>>)

\* lines 56-57: the delete of the expired entry is over, get() returns null
expiredDeleted(s, call) == returned(unlinkSettled(s, call), call, <<>>)

\* lines 63-72: a call of delete()
deleteCall(s, key) ==
  delete(started(s), MemCall(s, "delete", key, <<>>, <<>>), "unlink")

deleteSettledFile(s, call) == returned(unlinkSettled(s, call), call, <<>>)

\* lines 74-76: listKeys() up to its await of fs.readdir
listKeysCall(s) ==
  suspend(started(s), MemCall(s, "listKeys", "", <<>>, <<>>), "readdir")

\* lines 76-83
readdirSettled(s, call) == returned(s, call, listKeys(s.files))

\* lines 85-89: clear() up to its await of fs.readdir
clearCall(s) ==
  suspend([started(s) EXCEPT !.cache = <<>>],
          MemCall(s, "clear", "", <<>>, <<>>), "readdir")

\* lines 89-95: readdir settled; every file listed gets its unlink
clearListed(s, call) ==
  IF ~DirExists(s.files) THEN returned(s, call, <<>>)
  ELSE suspend([s EXCEPT !.store.pending = @ \ {call}],
               [call EXCEPT !.listed = Listing(s.files)], "unlink")

\* lines 90-92: the unlinks settled
clearUnlinked(s, call) ==
  returned([s EXCEPT !.files = [q \in DOMAIN @ \ call.listed |-> @[q]]], call, <<>>)

\* line 9-12: a new FileMemoryBackend on the same storePath
reopen(s) == [s EXCEPT !.cache = <<>>, !.store = NoStore]

\* ------------------------------------------------------------- gateway
\* lines 16-21, with the codes as a set
DEFAULT_RETRY_POLICY ==
  [maxAttempts |-> 3, backoffMs |-> 1000, backoffMultiplier |-> 2,
   retryableErrors |-> {"ECONNREFUSED", "ETIMEDOUT", "ENOTFOUND", "NETWORK_ERROR"}]

\* line 32: config.retryPolicy ?? DEFAULT_RETRY_POLICY
retryPolicy(config) ==
  IF config.retryPolicy = <<>> THEN DEFAULT_RETRY_POLICY ELSE config.retryPolicy[1]

\* the FlowError an operation throws when the response carries an error
ResponseError ==
  [createSession |-> FlowError("Failed to create session",
                               "SESSION_CREATE_FAILED", <<>>),
   listSessions  |-> FlowError("Failed to list sessions",
                               "SESSION_LIST_FAILED", <<>>),
   getAgents     |-> FlowError("Failed to get agents", "AGENTS_GET_FAILED", <<>>)]

\* what the remote call itself can throw
Thrown(message) == [name |-> "Error", message |-> message]

\* withRetry before any operation was started
NoRetry ==
  [state |-> "idle", op |-> "", policy |-> DEFAULT_RETRY_POLICY,
   attempts |-> <<>>, delay |-> 0, error |-> <<>>]

\* the test that retries every error
isRetryableAlways(policy, error) == TRUE

\* lines 270-272
isRetryable(policy, error) ==
  \E code \in policy.retryableErrors : includes(error.message, code)

RECURSIVE Pow(_, _)
Pow(b, e) == IF e = 0 THEN 1 ELSE b * Pow(b, e - 1)

\* how often the message of errors[i] occurs in errors[1..i]
CountUpTo(errors, i) ==
  Cardinality({j \in 1..i : errors[j].message = errors[i].message})

\* what pRetry rejects with when the retries are used up: the error of the
\* `retry` operation it runs on, which is the latest error whose message
\* had occurred at least as often as any message before it
RECURSIVE mainErrorFrom(_, _, _, _)
mainErrorFrom(errors, i, mainError, mainErrorCount) ==
  IF i > Len(errors) THEN mainError
  ELSE IF CountUpTo(errors, i) >= mainErrorCount
       THEN mainErrorFrom(errors, i + 1, errors[i], CountUpTo(errors, i))
       ELSE mainErrorFrom(errors, i + 1, mainError, mainErrorCount)

mainError(errors) == mainErrorFrom(errors, 1, errors[1], 0)

\* the errors of the failed attempts, in order
Errors(attempts) ==
  LET failed == SelectSeq(attempts, LAMBDA a : a # <<>>) IN
  [i \in 1..Len(failed) |-> failed[i][1]]

\* lines 264-283: pRetry(fn, ...) is called and makes its first attempt
withRetry(op, config) ==
  [state |-> "attempting", op |-> op, policy |-> retryPolicy(config),
   attempts |-> <<>>, delay |-> 0, error |-> <<>>]

\* fn resolved: pRetry resolves with its value
attemptResolved(r) ==
  [r EXCEPT !.state = "resolved", !.attempts = Append(@, <<>>)]

\* fn rejected: onFailedAttempt (269-281), then the next attempt after the
\* backoff unless `retries` attempts have been repeated already
attemptRejected(r, error) ==
  LET tried == Append(r.attempts, <<error>>)
      retries == r.policy.maxAttempts - 1
  IN
  IF ~isRetryable(r.policy, error)
  THEN [r EXCEPT !.state = "rejected", !.attempts = tried, !.error = <<error>>]
  ELSE IF Len(tried) > retries
  THEN [r EXCEPT !.state = "rejected", !.attempts = tried,
                 !.error = <<mainError(Errors(tried))>>]
  ELSE [r EXCEPT !.state = "backoff", !.attempts = tried,
                 !.delay = r.policy.backoffMs
                             * Pow(r.policy.backoffMultiplier, Len(tried) - 1)]

\* ------------------------------------------- event stream (201-248)
\* the delay of setTimeout(() => this.startEventStream(), 5000)
RECONNECT_DELAY == 5000

\* the event side of a FlowClient as constructed: controllers counts the
\* AbortControllers made, aborted holds those whose abort() was called,
\* streams has one entry per call of startEventStream, timers the deadlines
\* of the pending restarts, delivered the handler calls made
NoStream ==
  [eventSubscriptions |-> {}, controller |-> <<>>, controllers |-> 0,
   aborted |-> {}, streams |-> <<>>, timers |-> <<>>, delivered |-> <<>>]

\* this.eventStreamAbortController?.signal.aborted
signalAborted(g) ==
  g.controller # <<>> /\ g.controller[1] \in g.aborted

\* lines 218-222: up to the await of event.subscribe()
startEventStream(g) ==
  [g EXCEPT !.controllers = @ + 1,
            !.controller = <<g.controllers + 1>>,
            !.streams = Append(@, [state |-> "subscribing", read |-> 0])]

\* lines 245-248
stopEventStream(g) ==
  [g EXCEPT !.aborted = IF g.controller = <<>> THEN @ ELSE @ \cup {g.controller[1]},
            !.controller = <<>>]

\* lines 201-206
subscribeToEvents(g, handler) ==
  LET g1 == [g EXCEPT !.eventSubscriptions = @ \cup {handler}] IN
  IF Cardinality(g1.eventSubscriptions) = 1 THEN startEventStream(g1) ELSE g1

\* lines 208-213: the function subscribeToEvents returned
unsubscribe(g, handler) ==
  LET g1 == [g EXCEPT !.eventSubscriptions = @ \ {handler}] IN
  IF Cardinality(g1.eventSubscriptions) = 0 THEN stopEventStream(g1) ELSE g1

\* lines 237-242: the catch of startEventStream number r
streamFailed(g, r) ==
  IF ~signalAborted(g)
  THEN [g EXCEPT !.streams[r].state = "failed",
                 !.timers = Append(@, now + RECONNECT_DELAY)]
  ELSE [g EXCEPT !.streams[r].state = "failed"]

\* lines 224-236: the loop of stream r takes the next event
streamEvent(g, r) ==
  IF signalAborted(g)
  THEN [g EXCEPT !.streams[r].state = "ended"]
  ELSE [g EXCEPT !.streams[r].read = @ + 1,
                 !.delivered = @ \o SetToSeq({[stream |-> r, event |-> g.streams[r].read + 1,
                                              handler |-> h] :
                                               h \in g.eventSubscriptions})]

\* the stream is exhausted: the loop and startEventStream are over
streamEnded(g, r) == [g EXCEPT !.streams[r].state = "ended"]

\* a restart timer fired
restartFired(g, t) ==
  startEventStream([g EXCEPT !.timers = SubSeq(@, 1, t - 1) \o SubSeq(@, t + 1, Len(@))])

\* ================================================================ actions
\* the TaskExecution requests of a caller that gives no timeout
Executions ==
  [task : {Task}, agents : SeqUpTo(Names \cup {Ghost}, MaxAgents),
   mode : ModeInputs, timeout : {<<>>}]

\* the TaskExecution requests of a caller that gives a timeout
TimedExecutions ==
  [task : {Task}, agents : SeqUpTo(Names \cup {Ghost}, MaxAgents),
   mode : ModeInputs, timeout : {<<Timeout>>}]

Init ==
  /\ agents = [n \in Names |-> NewAgent(n)]
  /\ now = 1
  /\ execution = <<>>
  /\ pc = "idle"
  /\ promises = <<>>
  /\ results = <<>>
  /\ frame = NoFrame
  /\ outcome = [kind |-> "pending", results |-> <<>>, error |-> <<>>]
  /\ calls = <<>>
  /\ events = <<>>
  /\ cache = <<>>
  /\ files = <<>>
  /\ detached = <<>>
  /\ sessions = 0
  /\ ops = <<>>
  /\ intervals = <<>>
  /\ probes = {}
  /\ waits = <<>>
  /\ retry = NoRetry
  /\ stream = NoStream
  /\ store = NoStore
  /\ updates = <<>>

\* the clock advances
Tick ==
  /\ now < MaxTime
  /\ pc \notin {"idle", "done"}
  /\ now' = now + 1
  /\ UNCHANGED <<agents, execution, pc, promises, results, frame, outcome,
                 calls, events, cache, files>>
  /\ UNCHANGED <<registryVars, gatewayVars, store, updates>>

\* a caller invokes orchestrator.execute(ex)
Execute(ex) ==
  /\ pc = "idle"
  /\ execution' = <<ex>>
  /\ Apply(execute(Cur, ex))
  /\ UNCHANGED now
  /\ UNCHANGED <<registryVars, gatewayVars, store, updates>>

\* the sendMessage of parallel promise i resolves
BranchResolve(i, result) ==
  /\ pc \in {"parallel", "hierarchical_workers"}
  /\ i \in 1..Len(promises)
  /\ promises[i].status = "pending"
  /\ Apply(afterBranch(branchFulfilled(Cur, i, result), execution[1]))
  /\ UNCHANGED <<now, execution>>
  /\ UNCHANGED <<registryVars, gatewayVars, store, updates>>

\* the sendMessage of parallel promise i rejects
BranchReject(i, error) ==
  /\ pc \in {"parallel", "hierarchical_workers"}
  /\ i \in 1..Len(promises)
  /\ promises[i].status = "pending"
  /\ Apply(afterBranch(branchRejected(Cur, i, error), execution[1]))
  /\ UNCHANGED <<now, execution>>
  /\ UNCHANGED <<registryVars, gatewayVars, store, updates>>

\* the sendMessage of the current sequential agent resolves
SequentialResolve(result) ==
  /\ pc = "sequential_send"
  /\ Apply(sequentialResolved(Cur, execution[1], result))
  /\ UNCHANGED <<now, execution>>
  /\ UNCHANGED <<registryVars, gatewayVars, store, updates>>

\* the fs.writeFile of memory.set settles
SequentialStore(written) ==
  /\ pc = "sequential_store"
  /\ Apply(sequentialStored(Cur, execution[1], written))
  /\ UNCHANGED <<now, execution>>
  /\ UNCHANGED <<registryVars, gatewayVars, store, updates>>

\* the sendMessage of the current sequential agent rejects
SequentialReject(error) ==
  /\ pc = "sequential_send"
  /\ Apply(sequentialRejected(Cur, execution[1], error))
  /\ UNCHANGED <<now, execution>>
  /\ UNCHANGED <<registryVars, gatewayVars, store, updates>>

\* the coordinator's planning prompt resolves
PlanResolve(result) ==
  /\ pc = "hierarchical_plan"
  /\ Apply(planResolved(Cur, execution[1], result))
  /\ UNCHANGED <<now, execution>>
  /\ UNCHANGED <<registryVars, gatewayVars, store, updates>>

\* the coordinator's aggregation prompt resolves
AggregateResolve(result) ==
  /\ pc = "hierarchical_aggregate"
  /\ Apply(aggregateResolved(Cur, execution[1], result))
  /\ UNCHANGED <<now, execution>>
  /\ UNCHANGED <<registryVars, gatewayVars, store, updates>>

\* a prompt of the coordinator (planning or aggregation) rejects
CoordinatorReject(error) ==
  /\ pc \in {"hierarchical_plan", "hierarchical_aggregate"}
  /\ Apply(hierarchicalCatch(
             [Cur EXCEPT !.calls = settle(@, frame.call, "rejected", error)],
             execution[1], error))
  /\ UNCHANGED <<now, execution>>
  /\ UNCHANGED <<registryVars, gatewayVars, store, updates>>

\* a caller that gives no timeout calls execute
ExecuteUntimed == pc = "idle" /\ \E ex \in Executions : Execute(ex)

\* a caller that gives a timeout calls execute
ExecuteTimed == pc = "idle" /\ \E ex \in TimedExecutions : Execute(ex)

Next ==
  \/ Tick
  \/ ExecuteUntimed
  \/ \E i \in 1..MaxAgents, r \in Responses : BranchResolve(i, r)
  \/ \E i \in 1..MaxAgents, e \in Rejections : BranchReject(i, e)
  \/ \E r \in Responses : SequentialResolve(r)
  \/ \E w \in BOOLEAN : SequentialStore(w)
  \/ \E e \in Rejections : SequentialReject(e)
  \/ \E r \in Responses : PlanResolve(r)
  \/ \E r \in Responses : AggregateResolve(r)
  \/ \E e \in Rejections : CoordinatorReject(e)

Spec == Init /\ [][Next]_vars

\* the same program, called with a per-task timeout
NextTimed ==
  \/ Tick
  \/ ExecuteTimed
  \/ \E i \in 1..MaxAgents, r \in Responses : BranchResolve(i, r)
  \/ \E i \in 1..MaxAgents, e \in Rejections : BranchReject(i, e)
  \/ \E r \in Responses : SequentialResolve(r)
  \/ \E w \in BOOLEAN : SequentialStore(w)
  \/ \E e \in Rejections : SequentialReject(e)
  \/ \E r \in Responses : PlanResolve(r)
  \/ \E r \in Responses : AggregateResolve(r)
  \/ \E e \in Rejections : CoordinatorReject(e)

SpecTimed == Init /\ [][NextTimed]_vars

\* ===================================================== lifecycle actions
\* the variables of an execute call
flowVars ==
  <<execution, pc, promises, results, frame, outcome, calls, cache, files, store,
    updates>>

\* most lifecycle calls made by the callers of the registry
MaxCalls == 3

\* names given to spawn and terminate
SpawnNames == {"a1", "a2"}

BaseConfig ==
  [name |-> "a1", agent |-> "general", model |-> "test", provider |-> <<>>,
   tools |-> <<>>, systemPrompt |-> <<>>, temperature |-> <<>>]

\* configs that validateConfig is to accept (temperature in tenths)
ValidConfigs ==
  { [BaseConfig EXCEPT !.name = n, !.systemPrompt = p] :
      n \in SpawnNames, p \in {<<>>, <<"You are a helpful assistant">>} }

\* valid configs with a temperature at either end of the range
EdgeConfigs == { [BaseConfig EXCEPT !.temperature = <<t>>] : t \in {0, 10} }

\* configs that break one rule each
InvalidConfigs ==
  { [BaseConfig EXCEPT !.name = ""],
    [BaseConfig EXCEPT !.name = "invalid name"],
    [BaseConfig EXCEPT !.agent = ""],
    [BaseConfig EXCEPT !.model = ""],
    [BaseConfig EXCEPT !.temperature = <<15>>],
    [BaseConfig EXCEPT !.temperature = <<0 - 1>>] }

\* a name with a tab in it
TabConfig == [BaseConfig EXCEPT !.name = "a\t1"]

Configs == {BaseConfig} \cup EdgeConfigs \cup InvalidConfigs \cup {TabConfig}

\* the calls made so far by the callers of the registry
TopCalls == Cardinality({ o \in 1..Len(ops) : ops[o].parent = 0 }) + Len(waits)

InitRegistry ==
  /\ agents = <<>>
  /\ now = 0
  /\ execution = <<>>
  /\ pc = "idle"
  /\ promises = <<>>
  /\ results = <<>>
  /\ frame = NoFrame
  /\ outcome = [kind |-> "pending", results |-> <<>>, error |-> <<>>]
  /\ calls = <<>>
  /\ events = <<>>
  /\ cache = <<>>
  /\ files = <<>>
  /\ detached = <<>>
  /\ sessions = 0
  /\ ops = <<>>
  /\ intervals = <<>>
  /\ probes = {}
  /\ waits = <<>>
  /\ retry = NoRetry
  /\ stream = NoStream
  /\ store = NoStore
  /\ updates = <<>>

\* a caller invokes spawn(config)
Spawn(config) ==
  /\ TopCalls < MaxCalls
  /\ ApplyReg(spawnCall(Reg, config))
  /\ UNCHANGED <<now, flowVars, gatewayVars>>

\* the createSession of spawn call o resolves
CreateResolve(o) ==
  /\ o \in 1..Len(ops)
  /\ ops[o].op = "spawn" /\ ops[o].pc = "create"
  /\ ApplyReg(createResolved(Reg, o))
  /\ UNCHANGED <<now, flowVars, gatewayVars>>

\* the createSession of spawn call o rejects
CreateReject(o, error) ==
  /\ o \in 1..Len(ops)
  /\ ops[o].op = "spawn" /\ ops[o].pc = "create"
  /\ ApplyReg(spawnRejected(Reg, o, error))
  /\ UNCHANGED <<now, flowVars, gatewayVars>>

\* the system prompt's sendMessage of spawn call o resolves
PromptResolve(o) ==
  /\ o \in 1..Len(ops)
  /\ ops[o].op = "spawn" /\ ops[o].pc = "prompt"
  /\ ApplyReg(register(Reg, o))
  /\ UNCHANGED <<now, flowVars, gatewayVars>>

\* the system prompt's sendMessage of spawn call o rejects
PromptReject(o, error) ==
  /\ o \in 1..Len(ops)
  /\ ops[o].op = "spawn" /\ ops[o].pc = "prompt"
  /\ ApplyReg(spawnRejected(Reg, o, error))
  /\ UNCHANGED <<now, flowVars, gatewayVars>>

\* a caller invokes terminate(name)
Terminate(name) ==
  /\ TopCalls < MaxCalls
  /\ ApplyReg(terminateCall(Reg, name, 0))
  /\ UNCHANGED <<now, flowVars, gatewayVars>>

\* the deleteSession of terminate call o settles
DeleteSettle(o, deleted) ==
  /\ o \in 1..Len(ops)
  /\ ops[o].op = "terminate" /\ ops[o].pc = "delete"
  /\ ApplyReg(deleteSettled(Reg, o, deleted))
  /\ UNCHANGED <<now, flowVars, gatewayVars>>

\* a caller invokes terminateAll()
TerminateAll ==
  /\ TopCalls < MaxCalls
  /\ ApplyReg(terminateAll(Reg))
  /\ UNCHANGED <<now, flowVars, gatewayVars>>

NextRegistry ==
  \/ \E config \in ValidConfigs : Spawn(config)
  \/ \E o \in 1..Len(ops) : CreateResolve(o)
  \/ \E o \in 1..Len(ops), e \in Rejections : CreateReject(o, e)
  \/ \E o \in 1..Len(ops) : PromptResolve(o)
  \/ \E o \in 1..Len(ops), e \in Rejections : PromptReject(o, e)
  \/ \E name \in SpawnNames \cup {Ghost} : Terminate(name)
  \/ \E o \in 1..Len(ops), deleted \in BOOLEAN : DeleteSettle(o, deleted)
  \/ TerminateAll

SpecRegistry == InitRegistry /\ [][NextRegistry]_vars

\* spawn called with configs of every kind, valid or not
NextValidation ==
  \/ \E config \in Configs : Spawn(config)
  \/ \E o \in 1..Len(ops) : CreateResolve(o)
  \/ \E o \in 1..Len(ops), e \in Rejections : CreateReject(o, e)

SpecValidation == InitRegistry /\ [][NextValidation]_vars

\* ===================================================== timers and waiting
\* most steps of the clock while callers wait
MaxSteps == 2

\* most steps of the clock under the health supervisor
MaxTicks == 4

\* most health probes in flight at once
MaxProbes == 1

\* the timeouts given to waitForIdle, in milliseconds
WaitTimeouts == {50, 150}

\* a timer is due: the event loop runs its callback before time goes on
Due ==
  \/ \E w \in 1..Len(waits) :
       \/ waits[w].timeoutAt # <<>> /\ waits[w].timeoutAt[1] <= now
       \/ waits[w].pollAt # <<>> /\ waits[w].pollAt[1] <= now
  \/ \E sid \in DOMAIN intervals : intervals[sid] <= now
  \/ \E t \in 1..Len(stream.timers) : stream.timers[t] <= now

\* the clock advances by `step` milliseconds, `most` times at most
Advance(step, most) ==
  /\ ~Due
  /\ now + step <= most * step
  /\ now' = now + step
  /\ UNCHANGED <<agents, events, flowVars, registryVars, gatewayVars>>

\* the execution engine (or another caller) sets the status of an agent
UpdateStatus(name, status) ==
  /\ name \in DOMAIN agents
  /\ agents[name].status # status
  /\ agents' = updateStatus(agents, name, status)
  /\ UNCHANGED <<now, events, flowVars, registryVars, gatewayVars>>

\* a caller invokes waitForIdle(name, timeoutMs)
WaitForIdle(name, timeoutMs) ==
  /\ TopCalls < MaxCalls
  /\ ApplyReg(waitForIdle(Reg, name, timeoutMs))
  /\ UNCHANGED <<now, flowVars, gatewayVars>>

\* the timeout timer of wait w fires
TimeoutFire(w) ==
  /\ w \in 1..Len(waits)
  /\ waits[w].timeoutAt # <<>> /\ waits[w].timeoutAt[1] <= now
  /\ ApplyReg(timeoutFired(Reg, w))
  /\ UNCHANGED <<now, flowVars, gatewayVars>>

\* the polling timer of wait w fires
PollFire(w) ==
  /\ w \in 1..Len(waits)
  /\ waits[w].pollAt # <<>> /\ waits[w].pollAt[1] <= now
  /\ ApplyReg(checkStatus(Reg, w))
  /\ UNCHANGED <<now, flowVars, gatewayVars>>

\* the health-check interval of a handle fires
ProbeFire(sid) ==
  /\ sid \in DOMAIN intervals
  /\ intervals[sid] <= now
  /\ Cardinality(probes) < MaxProbes
  /\ ApplyReg(probeFired(Reg, sid))
  /\ UNCHANGED <<now, flowVars, gatewayVars>>

\* the getSession of a health probe resolves
ProbeResolve(p) ==
  /\ p \in probes
  /\ ApplyReg(probeResolved(Reg, p))
  /\ UNCHANGED <<now, flowVars, gatewayVars>>

\* the getSession of a health probe rejects
ProbeReject(p) ==
  /\ p \in probes
  /\ ApplyReg(probeRejected(Reg, p))
  /\ UNCHANGED <<now, flowVars, gatewayVars>>

\* waitForIdle, with the calls that change what it waits for
NextWait ==
  \/ Spawn(BaseConfig)
  \/ \E o \in 1..Len(ops) : CreateResolve(o)
  \/ \E name \in DOMAIN agents, status \in {"idle", "busy"} :
       UpdateStatus(name, status)
  \/ \E name \in {"a1"}, t \in WaitTimeouts : WaitForIdle(name, t)
  \/ \E w \in 1..Len(waits) : TimeoutFire(w)
  \/ \E w \in 1..Len(waits) : PollFire(w)
  \/ Terminate("a1")
  \/ \E o \in 1..Len(ops) : DeleteSettle(o, TRUE)
  \/ Advance(POLL_INTERVAL \div 2, MaxSteps)

SpecWait == InitRegistry /\ [][NextWait]_vars

\* the health supervisor, with the calls that change what it supervises
NextHealth ==
  \/ Spawn(BaseConfig)
  \/ \E o \in 1..Len(ops) : CreateResolve(o)
  \/ \E name \in DOMAIN agents, status \in {"idle", "busy"} :
       UpdateStatus(name, status)
  \/ Terminate("a1")
  \/ \E o \in 1..Len(ops) : DeleteSettle(o, TRUE)
  \/ \E sid \in DOMAIN intervals : ProbeFire(sid)
  \/ \E p \in probes : ProbeResolve(p)
  \/ \E p \in probes : ProbeReject(p)
  \/ Advance(HEALTH_CHECK_INTERVAL, MaxTicks)

SpecHealth == InitRegistry /\ [][NextHealth]_vars

\* ================================================================ gateway
\* most attempts a configured retry policy allows
MaxAttempts == 2

\* most calls of startEventStream
MaxStreams == 2

\* most events read from one stream
MaxEvents == 2

\* the ClientConfig inputs: no retryPolicy, or one with its own maxAttempts
RetryConfigs ==
  {[retryPolicy |-> <<>>]} \cup
  {[retryPolicy |-> <<[DEFAULT_RETRY_POLICY EXCEPT !.maxAttempts = m]>>] :
     m \in 1..MaxAttempts}

\* the messages of the errors the remote call throws
ThrownMessages ==
  {"connect ECONNREFUSED 127.0.0.1:4096", "read ETIMEDOUT", "fetch failed"}

\* the handlers given to subscribeToEvents
Handlers == {"h1", "h2"}

\* a gateway operation is called on a client built with `config`
WithRetry(op, config) ==
  /\ retry.state \in {"idle", "resolved", "rejected"}
  /\ retry' = withRetry(op, config)
  /\ UNCHANGED <<agents, now, events, flowVars, registryVars, stream>>

\* the remote call of the current attempt returns data
AttemptResolve ==
  /\ retry.state = "attempting"
  /\ retry' = attemptResolved(retry)
  /\ UNCHANGED <<agents, now, events, flowVars, registryVars, stream>>

\* the remote call of the current attempt returns a response with an error
AttemptResponseError ==
  /\ retry.state = "attempting"
  /\ retry' = attemptRejected(retry, ResponseError[retry.op])
  /\ UNCHANGED <<agents, now, events, flowVars, registryVars, stream>>

\* the remote call of the current attempt throws
AttemptThrow(message) ==
  /\ retry.state = "attempting"
  /\ retry' = attemptRejected(retry, Thrown(message))
  /\ UNCHANGED <<agents, now, events, flowVars, registryVars, stream>>

\* the backoff delay is over: pRetry makes the next attempt
BackoffElapse ==
  /\ retry.state = "backoff"
  /\ retry' = [retry EXCEPT !.state = "attempting"]
  /\ UNCHANGED <<agents, now, events, flowVars, registryVars, stream>>

NextRetry ==
  \/ \E op \in DOMAIN ResponseError, config \in RetryConfigs : WithRetry(op, config)
  \/ AttemptResolve
  \/ AttemptResponseError
  \/ \E message \in ThrownMessages : AttemptThrow(message)
  \/ BackoffElapse

SpecRetry == InitRegistry /\ [][NextRetry]_vars

\* the streams that are connecting or being read
Live(g) == {r \in 1..Len(g.streams) : g.streams[r].state \in {"subscribing", "reading"}}

\* a caller subscribes a handler
SubscribeToEvents(handler) ==
  /\ handler \notin stream.eventSubscriptions
  /\ stream.eventSubscriptions = {} => Len(stream.streams) < MaxStreams
  /\ stream' = subscribeToEvents(stream, handler)
  /\ UNCHANGED <<agents, now, events, flowVars, registryVars, retry>>

\* a caller calls the function subscribeToEvents returned
Unsubscribe(handler) ==
  /\ handler \in stream.eventSubscriptions
  /\ stream' = unsubscribe(stream, handler)
  /\ UNCHANGED <<agents, now, events, flowVars, registryVars, retry>>

\* event.subscribe() of stream r resolves
SubscribeResolve(r) ==
  /\ r \in 1..Len(stream.streams)
  /\ stream.streams[r].state = "subscribing"
  /\ stream' = [stream EXCEPT !.streams[r].state = "reading"]
  /\ UNCHANGED <<agents, now, events, flowVars, registryVars, retry>>

\* event.subscribe() of stream r rejects
SubscribeReject(r) ==
  /\ r \in 1..Len(stream.streams)
  /\ stream.streams[r].state = "subscribing"
  /\ stream' = streamFailed(stream, r)
  /\ UNCHANGED <<agents, now, events, flowVars, registryVars, retry>>

\* stream r yields an event
StreamEvent(r) ==
  /\ r \in 1..Len(stream.streams)
  /\ stream.streams[r].state = "reading"
  /\ stream.streams[r].read < MaxEvents
  /\ stream' = streamEvent(stream, r)
  /\ UNCHANGED <<agents, now, events, flowVars, registryVars, retry>>

\* reading stream r throws
StreamThrow(r) ==
  /\ r \in 1..Len(stream.streams)
  /\ stream.streams[r].state = "reading"
  /\ stream' = streamFailed(stream, r)
  /\ UNCHANGED <<agents, now, events, flowVars, registryVars, retry>>

\* stream r is closed by the service
StreamEnd(r) ==
  /\ r \in 1..Len(stream.streams)
  /\ stream.streams[r].state = "reading"
  /\ stream' = streamEnded(stream, r)
  /\ UNCHANGED <<agents, now, events, flowVars, registryVars, retry>>

\* restart timer t fires
RestartFire(t) ==
  /\ t \in 1..Len(stream.timers)
  /\ stream.timers[t] <= now
  /\ Len(stream.streams) < MaxStreams
  /\ stream' = restartFired(stream, t)
  /\ UNCHANGED <<agents, now, events, flowVars, registryVars, retry>>

NextEvents ==
  \/ \E handler \in Handlers : SubscribeToEvents(handler)
  \/ \E handler \in Handlers : Unsubscribe(handler)
  \/ \E r \in 1..Len(stream.streams) : SubscribeResolve(r)
  \/ \E r \in 1..Len(stream.streams) : SubscribeReject(r)
  \/ \E r \in 1..Len(stream.streams) : StreamEvent(r)
  \/ \E r \in 1..Len(stream.streams) : StreamThrow(r)
  \/ \E r \in 1..Len(stream.streams) : StreamEnd(r)
  \/ \E t \in 1..Len(stream.timers) : RestartFire(t)
  \/ Advance(RECONNECT_DELAY, MaxSteps)

SpecEvents == InitRegistry /\ [][NextEvents]_vars

\* ====================================================== FileMemoryBackend
\* what is not the store's
outsideStore ==
  <<agents, now, events, execution, pc, promises, results, frame, outcome, calls,
    registryVars, gatewayVars, updates>>

\* two keys that differ in a character the file name cannot keep
Keys == {"a.b", "a_b"}

\* the values of the tests: a string, a number, a nested object, an array
Values ==
  {JsString("hello"), JsNumber(42),
   JsObject([nested |-> JsObject([value |-> JsBoolean(TRUE)])]),
   JsArray(<<JsNumber(1), JsNumber(2), JsNumber(3)>>)}

\* the ttl arguments, in seconds: none, zero, shorter and longer than a wait
Ttls == {<<>>, <<0>>, <<1>>, <<2>>}

\* the writes of the tests: every value without a ttl, a string with each ttl
Writes ==
  {[value |-> value, ttl |-> <<>>] : value \in Values}
  \cup {[value |-> JsString("hello"), ttl |-> ttl] : ttl \in Ttls}

\* the caller awaits each call of the store before it makes the next, as the
\* orchestrator (flow.ts 242) and the tests do; initialize() is not awaited
Awaited == store.pending = {}

InFlight(point) == {call \in store.pending : call.pc = point}

\* initialize(): fs.mkdir resolves
Mkdir ==
  /\ ~DirExists(files)
  /\ files' = mkdir(files)
  /\ UNCHANGED <<cache, store, outsideStore>>

Set(key, value, ttl) ==
  /\ Awaited
  /\ ApplyMem(set(Mem, key, value, ttl))
  /\ UNCHANGED outsideStore

WriteSettle(call) ==
  /\ call \in InFlight("writeFile")
  /\ ApplyMem(writeSettled(Mem, call))
  /\ UNCHANGED outsideStore

Get(key) ==
  /\ Awaited
  /\ ApplyMem(getCall(Mem, key))
  /\ UNCHANGED outsideStore

ReadSettle(call) ==
  /\ call \in InFlight("readFile")
  /\ ApplyMem(readSettled(Mem, call))
  /\ UNCHANGED outsideStore

Delete(key) ==
  /\ Awaited
  /\ ApplyMem(deleteCall(Mem, key))
  /\ UNCHANGED outsideStore

\* fs.unlink of a delete() settles, called by a caller or by get()
UnlinkSettle(call) ==
  /\ call \in InFlight("unlink")
  /\ call.op \in {"delete", "get"}
  /\ ApplyMem(IF call.op = "get" THEN expiredDeleted(Mem, call)
              ELSE deleteSettledFile(Mem, call))
  /\ UNCHANGED outsideStore

ListKeys ==
  /\ Awaited
  /\ ApplyMem(listKeysCall(Mem))
  /\ UNCHANGED outsideStore

Clear ==
  /\ Awaited
  /\ ApplyMem(clearCall(Mem))
  /\ UNCHANGED outsideStore

\* fs.readdir settles, for listKeys() or clear()
ReaddirSettle(call) ==
  /\ call \in InFlight("readdir")
  /\ ApplyMem(IF call.op = "clear" THEN clearListed(Mem, call)
              ELSE readdirSettled(Mem, call))
  /\ UNCHANGED outsideStore

\* the unlinks of clear() settle
ClearUnlink(call) ==
  /\ call \in InFlight("unlink")
  /\ call.op = "clear"
  /\ ApplyMem(clearUnlinked(Mem, call))
  /\ UNCHANGED outsideStore

\* the process ends with no call in progress and a new one opens the store
Reopen ==
  /\ store.pending = {}
  /\ store.last # <<>>
  /\ ApplyMem(reopen(Mem))
  /\ UNCHANGED outsideStore

\* the wait of the TTL test, in milliseconds
WAIT == 1100

\* most waits of a caller
MaxWaits == 1

\* the caller waits between two calls, as the TTL test does
Elapse ==
  /\ Awaited
  /\ Advance(WAIT, MaxWaits)

NextMemory ==
  \/ Mkdir
  \/ \E key \in Keys, write \in Writes : Set(key, write.value, write.ttl)
  \/ \E call \in store.pending : WriteSettle(call)
  \/ \E key \in Keys : Get(key)
  \/ \E call \in store.pending : ReadSettle(call)
  \/ \E key \in Keys : Delete(key)
  \/ \E call \in store.pending : UnlinkSettle(call)
  \/ ListKeys
  \/ Clear
  \/ \E call \in store.pending : ReaddirSettle(call)
  \/ \E call \in store.pending : ClearUnlink(call)
  \/ Reopen
  \/ Elapse

SpecMemory == InitRegistry /\ [][NextMemory]_vars

\* ====================================================== metrics of a handle
\* most updateMetrics calls of a caller
MaxUpdates == 3

\* the updates of the tests (cost in cents), with and without each part
Updates ==
  {[cost |-> bill.cost, tokens |-> bill.tokens, latency |-> latency] :
     bill \in {[cost |-> <<>>, tokens |-> <<>>],
               [cost |-> <<5>>, tokens |-> <<[input |-> 100, output |-> 50]>>]},
     latency \in {<<>>, <<2000>>, <<1500>>}}

\* a caller calls updateMetrics(name, update)
UpdateMetrics(name, update) ==
  /\ Len(updates) < MaxUpdates
  /\ agents' = updateMetrics(agents, name, update)
  /\ updates' = Append(updates, [name |-> name, update |-> update])
  /\ UNCHANGED <<now, events, execution, pc, promises, results, frame, outcome,
                 calls, cache, files, store, registryVars, gatewayVars>>

NextMetrics ==
  \E name \in {"a1", Ghost}, update \in Updates : UpdateMetrics(name, update)

SpecMetrics == Init /\ [][NextMetrics]_vars

\* ================================================================= claims
\* the mode execute dispatches on (line 82)
Mode == IF execution[1].mode = <<>> THEN "parallel" ELSE execution[1].mode[1]

Called == execution # <<>>

\* every name of the list was spawned
Valid(list) == Len(list) > 0 /\ \A i \in 1..Len(list) : list[i] \in Names

\* the registry as spawn left it
Untouched == agents = [n \in Names |-> NewAgent(n)]

\* ------------------------------------------------------------------- C1
\* C1: in parallel mode, whatever the order in which the remote calls settle,
\* the returned list has one result per entry of the agent list, and the result
\* at index i is the one of agents[i]: it carries that name and the outcome of
\* the prompt that was sent for index i.
C1_ParallelResultsInInputOrder ==
  (Called /\ Mode = "parallel" /\ outcome.kind = "returned") =>
    LET list == execution[1].agents
        rs == outcome.results
    IN /\ Len(rs) = Len(list)
       /\ \A i \in 1..Len(rs) :
            /\ rs[i].agent = list[i]
            /\ calls[i].by = [role |-> "parallel", index |-> i]
            /\ calls[i].sessionId = agents[list[i]].sessionId
            /\ rs[i].status = "fulfilled" =>
                 calls[i].state = "resolved" /\ rs[i].output = calls[i].answer
            /\ rs[i].status = "rejected" => calls[i].state = "rejected"

\* two different agents, the second of which settled strictly before the first
C1_Witness ==
  /\ Called /\ Mode = "parallel" /\ outcome.kind = "returned"
  /\ Len(execution[1].agents) = 2
  /\ execution[1].agents[1] # execution[1].agents[2]
  /\ agents[execution[1].agents[2]].lastActivity
       < agents[execution[1].agents[1]].lastActivity
  /\ outcome.results[1].output # outcome.results[2].output

\* ------------------------------------------------------------------- C2
\* C2: once validation has passed in parallel mode, every entry of the agent
\* list has been sent the task text exactly once, the call never throws and it
\* returns as soon as every prompt has settled; a failed agent's result is
\* Rejected with the wrapped cause, cost 0 and tokens {0,0}, the others are
\* Fulfilled with their own output.
C2_ParallelIsolation ==
  (Called /\ Mode = "parallel" /\ Valid(execution[1].agents)) =>
    LET list == execution[1].agents
        rs == outcome.results
    IN /\ Len(calls) = Len(list)
       /\ \A i \in 1..Len(list) :
            /\ calls[i].by.index = i
            /\ calls[i].sessionId = agents[list[i]].sessionId
            /\ calls[i].message.text = execution[1].task
       /\ outcome.kind # "threw"
       /\ outcome.kind = "returned" <=> \A i \in 1..Len(list) : calls[i].state # "inflight"
       /\ outcome.kind = "returned" =>
            \A i \in 1..Len(list) :
              IF calls[i].state = "rejected"
              THEN /\ rs[i].status = "rejected"
                   /\ rs[i].error = <<TaskExecutionError(execution[1].task, list[i],
                                                         calls[i].answer[1])>>
                   /\ rs[i].output = <<>>
                   /\ rs[i].cost = 0
                   /\ rs[i].tokensUsed = [input |-> 0, output |-> 0]
              ELSE /\ rs[i].status = "fulfilled"
                   /\ rs[i].output = calls[i].answer
                   /\ rs[i].error = <<>>

\* the first agent failed strictly before the second one succeeded
C2_Witness ==
  /\ Called /\ Mode = "parallel" /\ outcome.kind = "returned"
  /\ Len(outcome.results) = 2
  /\ execution[1].agents[1] # execution[1].agents[2]
  /\ outcome.results[1].status = "rejected"
  /\ outcome.results[2].status = "fulfilled"
  /\ agents[execution[1].agents[1]].lastActivity
       < agents[execution[1].agents[2]].lastActivity

\* ------------------------------------------------------------------- C3
\* C3: in sequential mode, as soon as the prompt of the agent at position f
\* (1-based) has failed, no prompt exists for a later position, and the call
\* has returned f results: the first f - 1 Fulfilled, in list order, and the
\* last one Rejected for the agent at position f.
C3_SequentialStopsAtFirstFailure ==
  (Called /\ Mode = "sequential") =>
    \A f \in 1..Len(calls) :
      calls[f].state = "rejected" =>
        LET list == execution[1].agents
            rs == outcome.results
        IN /\ Len(calls) = f
           /\ \A k \in 1..f : calls[k].by = [role |-> "sequential", index |-> k]
           /\ outcome.kind = "returned"
           /\ Len(rs) = f
           /\ \A k \in 1..(f - 1) :
                rs[k].status = "fulfilled" /\ rs[k].agent = list[k]
           /\ rs[f].status = "rejected" /\ rs[f].agent = list[f]

\* the first of two agents failed: one result, the second agent never prompted
C3_Witness ==
  /\ Called /\ Mode = "sequential" /\ outcome.kind = "returned"
  /\ Len(execution[1].agents) = 2
  /\ Len(calls) = 1 /\ calls[1].state = "rejected"
  /\ Len(outcome.results) = 1

\* ------------------------------------------------------------------- C4
\* the text formatResults is to extract from each of the two answers
C4_Extract(response) == IF response = PricedResponse THEN "x" ELSE "y\nz"

\* the rendering of the results of the agents at positions 1..n, from the
\* answers their prompts got
C4_Rendered(n) ==
  join([k \in 1..n |->
          "Agent " \o execution[1].agents[k] \o ":\n" \o C4_Extract(calls[k].answer[1])],
       "\n\n---\n\n")

C5_Key(name) == name \o "_result"

\* the last position in 1..n that names the same agent as position j
C5_Latest(list, j, n) ==
  CHOOSE k \in j..n : list[k] = list[j] /\ \A m \in (k + 1)..n : list[m] # list[j]

C5_Step ==
  (execution' # <<>> /\ execution'[1].mode = <<"sequential">>) =>
    LET list == execution'[1].agents IN
    \* a prompt is sent in this step: the store read before it sees the result
    \* of every agent prompted earlier (its latest one, if it is listed twice)
    /\ Len(calls') > Len(calls) =>
         \A j \in 1..Len(calls) :
           get(C5_Key(list[j])) = calls[C5_Latest(list, j, Len(calls))].answer
    \* the keys in the store are those of the agents whose prompt succeeded
    /\ DOMAIN cache' =
         { C5_Key(list[c]) : c \in { k \in 1..Len(calls') : calls'[k].state = "resolved" } }

\* C5: in sequential mode, at the step that sends the prompt of a later agent,
\* the coordination store already returns, under "<name>_result", the result of
\* every agent prompted before it; and the run writes such a key only for an
\* agent whose prompt succeeded, never for one whose prompt failed or was never
\* sent.
C5_StoreBeforeNextAgent == [][C5_Step]_vars

\* the second prompt was sent with the first result readable from the store,
\* it failed, and the store has no key for the second agent
C5_Witness ==
  /\ Called /\ Mode = "sequential"
  /\ Len(calls) = 2 /\ calls[2].state = "rejected"
  /\ execution[1].agents[1] # execution[1].agents[2]
  /\ get(C5_Key(execution[1].agents[1])) = calls[1].answer
  /\ C5_Key(execution[1].agents[2]) \notin DOMAIN cache

\* ------------------------------------------------------------------- C6
\* C6: a hierarchical execute with fewer than 2 agents throws
\* INVALID_EXECUTION, no prompt is ever sent and no agent's status, lastActivity
\* or metrics changes.
C6_HierarchicalNeedsTwoAgents ==
  (Called /\ Mode = "hierarchical" /\ Len(execution[1].agents) < 2) =>
    /\ outcome.kind = "threw"
    /\ outcome.error[1].code = "INVALID_EXECUTION"
    /\ calls = <<>>
    /\ Untouched

\* a hierarchical call that names one spawned agent, some time after the spawn
C6_Witness ==
  /\ Called /\ Mode = "hierarchical"
  /\ Len(execution[1].agents) = 1 /\ execution[1].agents[1] \in Names
  /\ outcome.kind = "threw"
  /\ now > agents[execution[1].agents[1]].lastActivity

\* ------------------------------------------------------------------- C7
\* what one prompt of the run contributes: its answer's cost and token counts
\* (0 where the answer has none), nothing when it failed
C7_Value(call) ==
  IF call.state # "resolved" THEN [cost |-> 0, input |-> 0, output |-> 0]
  ELSE LET info == call.answer[1].info IN
       [cost   |-> IF info.cost = <<>> THEN 0 ELSE info.cost[1],
        input  |-> IF info.tokens = <<>> THEN 0 ELSE info.tokens[1].input,
        output |-> IF info.tokens = <<>> THEN 0 ELSE info.tokens[1].output]

\* C7: a hierarchical run that returns returns exactly one result, Fulfilled
\* and attributed to the coordinator, carrying the aggregation answer; its cost
\* and its input and output token counts are the sums over the planning prompt,
\* every worker prompt (a failed worker counting 0) and the aggregation prompt.
C7_HierarchicalTotals ==
  (Called /\ Mode = "hierarchical" /\ outcome.kind = "returned") =>
    LET list == execution[1].agents
        r == outcome.results[1]
        n == Len(calls)
    IN /\ Len(outcome.results) = 1
       /\ r.agent = list[1]
       /\ r.status = "fulfilled"
       /\ n = Len(list) + 1
       /\ calls[1].by.role = "plan" /\ calls[n].by.role = "aggregate"
       /\ \A c \in 2..(n - 1) : calls[c].by = [role |-> "worker", index |-> c - 1]
       /\ r.output = calls[n].answer
       /\ r.cost = Sum([c \in 1..n |-> C7_Value(calls[c]).cost])
       /\ r.tokensUsed.input = Sum([c \in 1..n |-> C7_Value(calls[c]).input])
       /\ r.tokensUsed.output = Sum([c \in 1..n |-> C7_Value(calls[c]).output])

\* planning, worker and aggregation prompts all answered with a priced answer
C7_Witness ==
  /\ Called /\ Mode = "hierarchical" /\ outcome.kind = "returned"
  /\ \A c \in 1..Len(calls) : calls[c].answer = <<PricedResponse>>
  /\ outcome.results[1].cost = Len(calls)

\* ------------------------------------------------------------------- C8
\* C8: when the coordinator's planning or aggregation prompt fails, the
\* hierarchical execute throws a TASK_FAILED error that names the coordinator
\* and wraps the cause, returns no result list and leaves the coordinator in
\* status error; when it is the planning prompt, no worker was sent a prompt.
C8_CoordinatorFailureFailsRun ==
  (Called /\ Mode = "hierarchical") =>
    \A c \in 1..Len(calls) :
      (calls[c].by.role \in {"plan", "aggregate"} /\ calls[c].state = "rejected") =>
        /\ outcome.kind = "threw"
        /\ outcome.results = <<>>
        /\ outcome.error = <<TaskExecutionError(execution[1].task,
                                                execution[1].agents[1],
                                                calls[c].answer[1])>>
        /\ outcome.error[1].code = "TASK_FAILED"
        /\ agents[execution[1].agents[1]].status = "error"
        /\ calls[c].by.role = "plan" => Len(calls) = 1

\* the aggregation prompt failed after a worker had answered
C8_Witness ==
  /\ Called /\ Mode = "hierarchical" /\ outcome.kind = "threw"
  /\ Len(calls) = 3
  /\ calls[2].state = "resolved"
  /\ calls[3].state = "rejected"

\* ------------------------------------------------------------------- C9
C9_Fails(code) ==
  /\ outcome.kind = "threw"
  /\ outcome.error[1].code = code
  /\ calls = <<>>
  /\ Untouched

\* C9 as claimed: in each of the three modes an empty agent list fails with
\* INVALID_EXECUTION and a list naming an agent that is not registered fails
\* with AGENT_NOT_FOUND, without any prompt or any change to an agent.
C9_AsClaimed ==
  (Called /\ Mode \in {"parallel", "sequential", "hierarchical"}) =>
    LET list == execution[1].agents IN
    /\ Len(list) = 0 => C9_Fails("INVALID_EXECUTION")
    /\ (\E i \in 1..Len(list) : list[i] \notin Names) => C9_Fails("AGENT_NOT_FOUND")

\* C9: in each of the three modes an empty agent list fails with
\* INVALID_EXECUTION, and a list naming an agent that is not registered fails
\* with AGENT_NOT_FOUND, except that a hierarchical call with fewer than 2
\* agents fails with INVALID_EXECUTION first; in all these cases no prompt is
\* sent and no agent's status, lastActivity or metrics changes.
C9_FailFastValidation ==
  (Called /\ Mode \in {"parallel", "sequential", "hierarchical"}) =>
    LET list == execution[1].agents IN
    /\ Len(list) = 0 => C9_Fails("INVALID_EXECUTION")
    /\ (\E i \in 1..Len(list) : list[i] \notin Names) =>
         IF Mode = "hierarchical" /\ Len(list) < 2
         THEN C9_Fails("INVALID_EXECUTION")
         ELSE C9_Fails("AGENT_NOT_FOUND")

\* a call naming a spawned agent and then an unknown one was refused, at an
\* instant later than the spawned agent's lastActivity
C9_Witness ==
  /\ Called /\ Mode \in {"parallel", "sequential", "hierarchical"}
  /\ Len(execution[1].agents) = 2
  /\ execution[1].agents[1] \in Names
  /\ execution[1].agents[2] = Ghost
  /\ outcome.kind = "threw" /\ outcome.error[1].code = "AGENT_NOT_FOUND"
  /\ now > agents[execution[1].agents[1]].lastActivity

\* ------------------------------------------------------------------ C10
\* C10: once the timeout given to execute has elapsed since the call, the
\* execute call is no longer pending.
C10_TimeoutBoundsExecute ==
  (/\ Called
   /\ execution[1].timeout # <<>>
   /\ now > events[1].at + execution[1].timeout[1])
  => outcome.kind # "pending"

\* ------------------------------------------------------------- C11..C15
\* the step is a call of `op` by a caller of the registry
CallStep(op) ==
  /\ Len(ops') > Len(ops)
  /\ ops'[Len(ops) + 1].op = op
  /\ ops'[Len(ops) + 1].parent = 0

\* the call this step adds
NewOp == ops'[Len(ops) + 1]

\* the handle registered under the name was returned by an earlier spawn
SpawnedEarlier(name) ==
  \E o \in 1..Len(ops) :
    /\ ops[o].op = "spawn" /\ ops[o].outcome.kind = "returned"
    /\ ops[o].outcome.value = <<agents[name].sessionId>>

C11_AsClaimedStep ==
  (CallStep("spawn") /\ NewOp.arg.name \in DOMAIN agents) =>
    /\ NewOp.outcome.kind = "threw"
    /\ NewOp.outcome.error[1].code = "AGENT_EXISTS"
    /\ sessions' = sessions
    /\ agents' = agents
    /\ SpawnedEarlier(NewOp.arg.name)

\* C11 as claimed: a spawn under a name that an earlier spawn registered fails
\* with AGENT_EXISTS, creates no remote session and leaves the registry with
\* the first spawn's handle under that name.
C11_AsClaimed == [][C11_AsClaimedStep]_vars

C11_Step ==
  (CallStep("spawn") /\ NewOp.arg.name \in DOMAIN agents) =>
    /\ NewOp.outcome.kind = "threw"
    /\ NewOp.outcome.error[1].code = "AGENT_SPAWN_FAILED"
    /\ NewOp.outcome.error[1].details.cause.code = "AGENT_EXISTS"
    /\ sessions' = sessions
    /\ agents' = agents
    /\ SpawnedEarlier(NewOp.arg.name)

\* C11: a spawn under a name that an earlier spawn registered fails with an
\* AGENT_SPAWN_FAILED error whose cause is the AGENT_EXISTS error, creates no
\* remote session and leaves the registry with exactly the first spawn's handle
\* under that name.
C11_DuplicateSpawnFails == [][C11_Step]_vars

\* a second spawn of a registered name was refused
C11_Witness ==
  \E o \in 1..Len(ops) :
    /\ ops[o].op = "spawn" /\ ops[o].outcome.kind = "threw"
    /\ ops[o].stage = "called"
    /\ ops[o].arg.name \in DOMAIN agents
    /\ \E o1 \in 1..(o - 1) :
         ops[o1].outcome.value = <<agents[ops[o].arg.name].sessionId>>

\* ------------------------------------------------------------------ C12
Whitespace == {" ", "\t", "\n"}

\* the violations the claim lists (temperature in tenths)
C12_ViolatesAsClaimed(config) ==
  \/ config.name = ""
  \/ \E w \in Whitespace : includes(config.name, w)
  \/ config.agent = ""
  \/ config.model = ""
  \/ config.temperature # <<>> /\ (config.temperature[1] < 0 \/ config.temperature[1] > 10)

C12_Violates(config) ==
  \/ config.name = ""
  \/ includes(config.name, " ")
  \/ config.agent = ""
  \/ config.model = ""
  \/ config.temperature # <<>> /\ (config.temperature[1] < 0 \/ config.temperature[1] > 10)

C12_AsClaimedStep ==
  (CallStep("spawn") /\ C12_ViolatesAsClaimed(NewOp.arg)) =>
    /\ NewOp.outcome.kind = "threw"
    /\ NewOp.outcome.error[1].code = "INVALID_CONFIG"
    /\ sessions' = sessions
    /\ agents' = agents

\* C12 as claimed: spawn with an empty name, a name containing a whitespace
\* character, an empty agent type, an empty model or a temperature outside
\* [0,1] fails with INVALID_CONFIG, makes no remote call and leaves the
\* registry unchanged.
C12_AsClaimed == [][C12_AsClaimedStep]_vars

C12_Step ==
  /\ (CallStep("spawn") /\ C12_Violates(NewOp.arg)) =>
       /\ NewOp.outcome.kind = "threw"
       /\ NewOp.outcome.error[1].code = "AGENT_SPAWN_FAILED"
       /\ NewOp.outcome.error[1].details.cause.code = "INVALID_CONFIG"
       /\ sessions' = sessions
       /\ agents' = agents
       /\ intervals' = intervals
       /\ events' = events
  /\ (CallStep("spawn") /\ ~C12_Violates(NewOp.arg) /\ NewOp.outcome.kind = "threw") =>
       NewOp.outcome.error[1].details.cause.code # "INVALID_CONFIG"

\* C12: spawn with an empty name, a name containing a space, an empty agent
\* type, an empty model or a temperature outside [0,1] fails with an
\* AGENT_SPAWN_FAILED error whose cause is the INVALID_CONFIG error, makes no
\* remote call and leaves the registry unchanged; no other config is refused
\* as invalid.
C12_InvalidConfigRefused == [][C12_Step]_vars

\* a config with a temperature of 1.5 was refused while an agent is registered
C12_Witness ==
  /\ DOMAIN agents # {}
  /\ \E o \in 1..Len(ops) :
       /\ ops[o].op = "spawn" /\ ops[o].outcome.kind = "threw"
       /\ ops[o].arg.temperature = <<15>>
       /\ ops[o].outcome.error[1].details.cause.details.field = "temperature"

\* ------------------------------------------------------------------ C13
\* an agent:spawned notification was emitted for the session
Announced(sid) ==
  \E e \in 1..Len(events) :
    events[e].type = "agent:spawned" /\ events[e].sessionId = sid

\* C13: a spawn whose createSession or system-prompt send failed has failed
\* with an AGENT_SPAWN_FAILED error wrapping the cause, and no handle of it
\* exists: its session is not in the registry, no health probe is armed for it
\* and no agent:spawned notification was emitted for it.
C13_FailedSpawnLeavesNothing ==
  \A o \in 1..Len(ops) :
    (ops[o].op = "spawn" /\ ops[o].stage \in {"create", "prompt"}
       /\ ops[o].outcome.kind # "pending") =>
      /\ ops[o].outcome.kind = "threw"
      /\ ops[o].outcome.error[1].code = "AGENT_SPAWN_FAILED"
      /\ ops[o].outcome.error[1].details.cause \in Rejections
      /\ ~Registered(agents, ops[o].sid)
      /\ ops[o].sid \notin DOMAIN detached
      /\ ops[o].sid \notin DOMAIN intervals
      /\ ~Announced(ops[o].sid)

\* the system prompt of a spawn failed after its session had been created,
\* while another agent is registered
C13_Witness ==
  /\ DOMAIN agents # {}
  /\ \E o \in 1..Len(ops) :
       /\ ops[o].op = "spawn" /\ ops[o].stage = "prompt"
       /\ ops[o].outcome.kind = "threw"
       /\ ops[o].arg.name \notin DOMAIN agents

\* ------------------------------------------------------------------ C14
\* agent:terminated was emitted for the name
Retired(log, name) ==
  \E e \in 1..Len(log) : log[e].type = "agent:terminated" /\ log[e].name = name

C14_Step ==
  /\ \A o \in 1..Len(ops') :
       ops'[o].op = "terminate" =>
         /\ ops'[o].outcome.kind = "threw" =>
              /\ ops'[o].stage = "called"
              /\ ops'[o].outcome.error[1].code = "AGENT_NOT_FOUND"
         /\ ops'[o].outcome.kind = "returned" =>
              /\ ~Registered(agents', ops'[o].sid)
              /\ ops'[o].sid \notin DOMAIN intervals'
              /\ Retired(events', ops'[o].arg)
  /\ (CallStep("terminate") /\ NewOp.arg \in DOMAIN agents) =>
       NewOp.outcome.kind = "pending"
  /\ (CallStep("terminate") /\ NewOp.arg \notin DOMAIN agents) =>
       /\ NewOp.outcome.kind = "threw"
       /\ UNCHANGED <<agents, detached, intervals, events, sessions>>
  /\ \A o \in 1..Len(ops) :
       (ops[o].op = "terminate" /\ ops[o].pc = "delete" /\ ops'[o].pc = "done") =>
         /\ ops'[o].outcome.kind = "returned"
         /\ ops'[o].arg \notin DOMAIN agents'

\* C14: terminate of a registered name never fails, also when the remote
\* session delete fails: at the step it returns the name is out of the
\* registry, and from then on its handle is not registered, its health probe is
\* not armed and agent:terminated has been emitted; terminate of an
\* unregistered name fails with AGENT_NOT_FOUND and changes nothing.
C14_TerminateRemoves == [][C14_Step]_vars

\* a terminate returned although its deleteSession failed
C14_Witness ==
  \E o \in 1..Len(ops) :
    /\ ops[o].op = "terminate" /\ ops[o].parent = 0
    /\ ops[o].outcome.kind = "returned"
    /\ ops[o].stage = "delete failed"
    /\ Announced(ops[o].sid)

\* ------------------------------------------------------------------ C15
\* the terminate calls a terminateAll call made
Kids(log, p) == { k \in 1..Len(log) : log[k].parent = p }

C15_Step ==
  /\ CallStep("terminateAll") =>
       { ops'[k].sid : k \in Kids(ops', Len(ops) + 1) }
         = { agents[n].sessionId : n \in DOMAIN agents }
  /\ \A p \in 1..Len(ops') :
       ops'[p].op = "terminateAll" =>
         /\ ops'[p].outcome.kind # "threw"
         /\ ops'[p].outcome.kind = "returned" <=>
              \A k \in Kids(ops', p) : ops'[k].pc = "done"
         /\ ops'[p].outcome.kind = "returned" =>
              \A k \in Kids(ops', p) : ~Registered(agents', ops'[k].sid)

\* C15: terminateAll starts the termination of every handle registered when
\* it is called; it never fails, it returns when all these terminations are
\* over, whether or not their remote deletes failed, and from then on none of
\* these handles is in the registry.
C15_TerminateAllSweeps == [][C15_Step]_vars

\* a sweep over two handles returned, one of whose remote deletes failed
C15_Witness ==
  \E p \in 1..Len(ops) :
    /\ ops[p].op = "terminateAll" /\ ops[p].outcome.kind = "returned"
    /\ Cardinality(Kids(ops, p)) = 2
    /\ \E k \in Kids(ops, p) : ops[k].stage = "delete failed"
    /\ \E k \in Kids(ops, p) : ops[k].stage = "deleted"

\* ------------------------------------------------------------------ C16
\* the waits on an agent that was registered at the call
Waiting == {w \in 1..Len(waits) : waits[w].sid # ""}

\* no wait is pending after its deadline, none settled after it
InTime ==
  \A w \in Waiting :
    LET deadline == waits[w].calledAt + waits[w].timeoutMs IN
    IF waits[w].state = "pending" THEN now <= deadline
    ELSE waits[w].settledAt[1] <= deadline

C16_Step ==
  /\ InTime'
  \* the call: returns at once on an idle agent, else arms the timeout
  /\ \A w \in Waiting' \ Waiting :
       LET agent == agents[waits'[w].name] IN
       IF agent.status = "idle"
       THEN waits'[w].state = "resolved" /\ waits'[w].settledAt = <<now>>
       ELSE /\ waits'[w].state = "pending"
            /\ waits'[w].timeoutAt = <<now + waits'[w].timeoutMs>>
  \* a pending wait settles only by observing idle or by its timeout
  /\ \A w \in Waiting :
       LET seen == Obj(agents, detached, waits[w].sid).status IN
       IF waits[w].state # "pending"
       THEN waits'[w].state = waits[w].state /\ waits'[w].error = waits[w].error
       ELSE /\ waits'[w].state = "resolved" => seen = "idle"
            /\ waits'[w].state = "rejected" =>
                 /\ waits'[w].error[1].code = "WAIT_TIMEOUT"
                 /\ now = waits[w].calledAt + waits[w].timeoutMs
            /\ waits'[w].pollAt # waits[w].pollAt /\ seen = "idle" =>
                 waits'[w].state = "resolved"
            /\ waits'[w].timeoutAt # waits[w].timeoutAt /\ waits'[w].timeoutAt = <<>> =>
                 waits'[w].state # "pending"

\* C16: waitForIdle on a registered agent settles no later than timeoutMs
\* after the call: at once if the agent is idle, when a poll observes idle,
\* or with WAIT_TIMEOUT when timeoutMs has elapsed; the registry stays usable
\* in between
C16_WaitSettlesInTime == [][C16_Step]_vars

\* one wait ran into its timeout, another returned after a status update
\* made while it was pending
C16_Witness ==
  /\ \E w \in Waiting :
       /\ waits[w].state = "rejected"
       /\ waits[w].error[1].code = "WAIT_TIMEOUT"
       /\ waits[w].settledAt[1] = waits[w].calledAt + waits[w].timeoutMs
  /\ \E w \in Waiting :
       /\ waits[w].state = "resolved"
       /\ waits[w].settledAt[1] > waits[w].calledAt
       /\ Obj(agents, detached, waits[w].sid).lastActivity > waits[w].calledAt

\* ------------------------------------------------------------------ C17
\* C17: a wait whose agent left the registry while it was pending fails with
\* AGENT_NOT_FOUND
C17_AsClaimed ==
  \A w \in Waiting :
    waits[w].state # "pending" /\ waits[w].gone =>
      /\ waits[w].state = "rejected"
      /\ waits[w].error[1].code = "AGENT_NOT_FOUND"

\* ------------------------------------------------------------------ C18
\* the registered handles a settled probe took out of the registry
Reaped ==
  IF probes' # probes /\ probes' \subseteq probes
  THEN {n \in DOMAIN agents :
          n \notin DOMAIN agents' \/ agents'[n].sessionId # agents[n].sessionId}
  ELSE {}

\* C18: the health supervisor removes a handle only on a failed probe seen
\* when now - lastActivity of that handle exceeds the 30 s window; a handle
\* whose last successful probe or status update is at most 30 s old stays
\* registered
C18_AsClaimed ==
  [][\A n \in Reaped : now - agents[n].lastActivity > HEALTH_CHECK_TIMEOUT]_vars

\* ------------------------------------------------------------------ C19
\* the error of attempt i names a code of the allow-list
Transient(i) ==
  \E code \in retry.policy.retryableErrors :
    includes(retry.attempts[i][1].message, code)

\* at most maxAttempts attempts, none after a success, a further one only
\* after a transient failure, and a failure that is not transient is the
\* error of the call at once
RetryDiscipline ==
  LET n == Len(retry.attempts) IN
  /\ n <= retry.policy.maxAttempts
  /\ retry.policy = retryPolicy([retryPolicy |-> <<>>]) => n <= 3
  /\ \A i \in 1..(n - 1) : retry.attempts[i] # <<>> /\ Transient(i)
  /\ retry.state \in {"attempting", "backoff"} =>
       /\ n < retry.policy.maxAttempts
       /\ n > 0 => retry.attempts[n] # <<>> /\ Transient(n)
  /\ retry.state = "resolved" => retry.attempts[n] = <<>>
  /\ retry.state = "rejected" =>
       /\ retry.attempts[n] # <<>>
       /\ Transient(n) => n = retry.policy.maxAttempts
       /\ ~Transient(n) => retry.error = retry.attempts[n]

\* how often the message of error e occurs among the failed attempts
Occurrences(e) ==
  Cardinality({i \in 1..Len(retry.attempts) :
                 retry.attempts[i] # <<>> /\ retry.attempts[i][1].message = e.message})

C20_AsClaimed ==
  stream.eventSubscriptions # {} =>
    Live(stream) # {} \/ stream.timers # <<>>


\* ------------------------------------------------------ FileMemoryBackend
\* the call that returned last, with no call started since
LastReturn == store.last[1]

\* set(key, ...) has just returned and no call was made since
JustSet(key) ==
  /\ store.pending = {}
  /\ store.last # <<>>
  /\ LastReturn.op = "set"
  /\ LastReturn.key = key

\* C21: for every key k and every value v of the four kinds, a get(k) called
\* right after set(k, v) has returned returns v at once.
C21_Step ==
  \A key \in Keys :
    JustSet(key) /\ LastReturn.ttl = <<>> /\ Get(key)
      => /\ store'.pending = {}
         /\ store'.last # <<>>
         /\ store'.last[1].op = "get"
         /\ store'.last[1].result = <<LastReturn.value>>

C21_RoundTrip == [][C21_Step]_vars

\* get returned the nested object that set stored at this instant, after a wait
C21_Witness ==
  /\ store.last # <<>>
  /\ LastReturn.op = "get"
  /\ LastReturn.result = <<JsObject([nested |-> JsObject([value |-> JsBoolean(TRUE)])])>>
  /\ LastReturn.key \in DOMAIN cache
  /\ cache[LastReturn.key].createdAt = now
  /\ now > 0


\* the expiry that a ttl given now asks for: none when the ttl is omitted
ExpiryOf(ttl) == IF ttl = <<>> THEN <<>> ELSE <<now + ttl[1] * 1000>>

\* C22: set(k, v2, ttl2) on an existing key replaces value and expiry whatever
\* the old entry was: the cached entry holds v2 and the expiry that ttl2 alone
\* asks for (none when ttl2 is omitted), the write to the file stores that entry,
\* and the get that follows returns v2, or absent once that expiry has passed.
C22_Step ==
  \A key \in Keys :
    /\ \A write \in Writes :
         /\ key \in DOMAIN cache
         /\ write.ttl # <<0>>
         /\ Set(key, write.value, write.ttl)
         => /\ cache'[key].value = write.value
            /\ cache'[key].expiresAt = ExpiryOf(write.ttl)
    /\ \A call \in store.pending :
         /\ call.op = "set" /\ call.key = key /\ call.ttl # <<0>>
         /\ WriteSettle(call) /\ DirExists(files)
         => /\ files'[getFilePath(key)].value = parse(stringify(call.value))
            /\ files'[getFilePath(key)].expiresAt = call.entry[1].expiresAt
    /\ JustSet(key) /\ LastReturn.ttl # <<0>> /\ Get(key)
         => \/ /\ store'.last # <<>>
               /\ store'.last[1].result = <<LastReturn.value>>
            \/ /\ expired(cache[key])
               /\ cache[key].value = LastReturn.value
               /\ LastReturn.ttl # <<>>

SetAt(key) == cache[key].createdAt

\* the get called in this step found its entry expired: it returns nothing yet
\* and deletes the entry
FoundExpired(key) ==
  /\ store'.last \in {<<>>, store.last}
  /\ \E call \in store'.pending :
       call.op = "get" /\ call.key = key /\ call.pc = "unlink"

\* the call returns absent when its unlink settles
ReturnsAbsent(call) ==
  UnlinkSettle(call) =>
    /\ store'.last[1].op = call.op
    /\ store'.last[1].result = <<>>

\* C23 as claimed: for every ttl, 0 included, a get made more than ttl seconds
\* after the set does not return the value.
C23_AsClaimedStep ==
  \A key \in Keys :
    /\ JustSet(key) /\ LastReturn.ttl # <<>>
    /\ now > SetAt(key) + LastReturn.ttl[1] * 1000
    /\ Get(key)
    => FoundExpired(key)

C23_AsClaimed == [][C23_AsClaimedStep]_vars

\* C23: for every positive ttl, a get made more than ttl seconds after
\* set(k, v, ttl) returns absent and one made before the ttl has elapsed returns
\* v; an entry set without a ttl is returned unchanged after any wait.
C23_Step ==
  /\ \A key \in Keys :
       /\ JustSet(key) /\ LastReturn.ttl # <<>> /\ LastReturn.ttl # <<0>>
          /\ now > SetAt(key) + LastReturn.ttl[1] * 1000
          /\ Get(key)
          => FoundExpired(key)
       /\ JustSet(key) /\ LastReturn.ttl # <<>> /\ LastReturn.ttl # <<0>>
          /\ now < SetAt(key) + LastReturn.ttl[1] * 1000
          /\ Get(key)
          => store'.last # <<>> /\ store'.last[1].result = <<LastReturn.value>>
       /\ JustSet(key) /\ LastReturn.ttl = <<>> /\ Get(key)
          => store'.last # <<>> /\ store'.last[1].result = <<LastReturn.value>>
  /\ \A call \in store.pending : call.op = "get" => ReturnsAbsent(call)

C23_Expiry == [][C23_Step]_vars

\* a get has found the entry of its key expired, a wait after the
\* set with a ttl of one second, and is deleting it before it returns absent
C23_Witness ==
  \E call \in store.pending :
    /\ call.op = "get" /\ call.pc = "unlink"
    /\ getFilePath(call.key) \in Listing(files)
    /\ files[getFilePath(call.key)].key = call.key
    /\ files[getFilePath(call.key)].expiresAt = <<files[getFilePath(call.key)].createdAt + 1000>>
    /\ now > files[getFilePath(call.key)].createdAt + 1000


\* C24: expiry is lazy. A get that finds the entry of its key expired, in the
\* cache or in the file it reads, removes it from the cache at once and returns
\* absent when it has removed the file, after which listKeys() no longer has
\* the key; nothing but a call of the store removes an entry, so the passing of
\* time leaves an expired entry cached, on file and listed.
C24_Step ==
  /\ \A key \in Keys :
       key \in DOMAIN cache /\ expired(cache[key]) /\ Get(key)
       => key \notin DOMAIN cache' /\ FoundExpired(key)
  /\ \A call \in store.pending :
       /\ call.op = "get" /\ ReadSettle(call)
          /\ getFilePath(call.key) \in Listing(files)
          /\ expired(files[getFilePath(call.key)])
          => call.key \notin DOMAIN cache' /\ FoundExpired(call.key)
       /\ call.op = "get" /\ UnlinkSettle(call)
          => /\ store'.last[1].result = <<>>
             /\ getFilePath(call.key) \notin DOMAIN files'
             /\ call.key \notin listKeys(files')
             /\ sanitize(call.key) \notin listKeys(files')
  /\ now' # now => cache' = cache /\ files' = files

C24_LazyExpiry == [][C24_Step]_vars

\* listKeys() has just listed a key whose entry on file expired before now
C24_Witness ==
  /\ store.pending = {}
  /\ store.last # <<>>
  /\ LastReturn.op = "listKeys"
  /\ \E key \in Keys :
       /\ key \in LastReturn.result
       /\ key \in DOMAIN cache
       /\ expired(cache[key])
       /\ getFilePath(key) \in Listing(files)
       /\ expired(files[getFilePath(key)])


\* the record that the storage holds for a key, if any
Record(fs, key) ==
  IF getFilePath(key) \in Listing(fs) /\ fs[getFilePath(key)].key = key
  THEN <<fs[getFilePath(key)]>>
  ELSE <<>>

\* the key was never set, or was deleted: no entry of it cached or stored
Absent(key) == key \notin DOMAIN cache /\ Record(files, key) = <<>>

\* C25: a delete(k) of an absent key k returns without an error
\* and leaves listKeys() and what get returns for every other key as they
\* were; a delete(k) of a present key makes get(k) return absent.
C25_Step ==
  \A call \in store.pending :
    call.op = "delete" /\ UnlinkSettle(call)
    => /\ store'.last[1].result = <<>>
       /\ get(call.key)' = <<>>
       /\ Absent(call.key)
          => /\ listKeys(files') = listKeys(files)
             /\ \A other \in Keys \ {call.key} : get(other)' = get(other)

C25_AsClaimed == [][C25_Step]_vars

\* C26: a set or a delete of a key never changes the record persisted for
\* another key, nor what a newly opened store returns for that other key.
C26_Step ==
  \A call \in store.pending :
    /\ call.op \in {"set", "delete"}
    /\ WriteSettle(call) \/ UnlinkSettle(call)
    => \A other \in Keys \ {call.key} :
         Record(files', other) = Record(files, other)

C26_AsClaimed == [][C26_Step]_vars


\* ------------------------------------------------------------- metrics
\* the updates made for a name, of those a caller made
UpdatesOf(name) == SelectSeq(updates, LAMBDA u : u.name = name)

\* the latencies that the updates for a name carried
LatenciesOf(name) ==
  LET timed == SelectSeq(UpdatesOf(name), LAMBDA u : u.update.latency # <<>>)
  IN [i \in 1..Len(timed) |-> timed[i].update.latency[1]]

\* C27: after the updateMetrics calls made on a live handle, tasksCompleted is
\* the number n of calls that carried a latency and averageLatency is the sum
\* of those latencies over n; totalCost and totalTokens are the sums of the
\* costs and tokens given; calls for an unregistered name change nothing.
C27_MetricsAccumulate ==
  /\ \A name \in DOMAIN agents :
       LET m == agents[name].metrics[1]
           given == UpdatesOf(name)
           n == Len(LatenciesOf(name))
       IN /\ m.tasksCompleted = n
          /\ m.averageLatency =
               IF n = 0 THEN Frac(0, 1) ELSE Frac(Sum(LatenciesOf(name)), n)
          /\ m.totalCost = Sum([i \in 1..Len(given) |-> OrZero(given[i].update.cost)])
          /\ m.totalTokens.input =
               Sum([i \in 1..Len(given) |->
                      IF given[i].update.tokens = <<>> THEN 0
                      ELSE given[i].update.tokens[1].input])
          /\ m.totalTokens.output =
               Sum([i \in 1..Len(given) |->
                      IF given[i].update.tokens = <<>> THEN 0
                      ELSE given[i].update.tokens[1].output])
  /\ DOMAIN agents = Names

\* the two updates of the test, a third without latency and one for a name that
\* is not registered: two tasks completed, 1750 ms on average
C27_Witness ==
  /\ LatenciesOf("a1") = <<2000, 1500>>
  /\ \E i \in 1..Len(updates) :
       updates[i].name = "a1" /\ updates[i].update.latency = <<>>
           /\ updates[i].update.cost # <<>>
  /\ agents["a1"].metrics[1].tasksCompleted = 2
  /\ agents["a1"].metrics[1].averageLatency = [n |-> 1750, d |-> 1]


\* ------------------------------------------------------------ task events
\* the types of the events emitted so far, in order
Emitted == [e \in 1..Len(events) |-> events[e].type]

Counters(ag, name) ==
  [tasksCompleted |-> ag[name].metrics[1].tasksCompleted,
   totalCost      |-> ag[name].metrics[1].totalCost,
   input          |-> ag[name].metrics[1].totalTokens.input,
   output         |-> ag[name].metrics[1].totalTokens.output]

\* the step adds the cost and the tokens of one answer to the counters of
\* `name`, counts one more task, and leaves every other handle's metrics alone
Gains(name, answer) ==
  /\ Counters(agents', name) =
       [tasksCompleted |-> Counters(agents, name).tasksCompleted + 1,
        totalCost      |-> Counters(agents, name).totalCost + OrZero(answer.info.cost),
        input          |-> Counters(agents, name).input
                           + (IF answer.info.tokens = <<>> THEN 0
                              ELSE answer.info.tokens[1].input),
        output         |-> Counters(agents, name).output
                           + (IF answer.info.tokens = <<>> THEN 0
                              ELSE answer.info.tokens[1].output)]
  /\ \A other \in DOMAIN agents \ {name} : agents'[other].metrics = agents[other].metrics

SameMetrics == \A name \in DOMAIN agents : agents'[name].metrics = agents[name].metrics

\* C29: in parallel and sequential mode a prompt that succeeds adds its cost
\* and tokens to the counters of its agent and one to tasksCompleted, a prompt
\* that fails leaves all metrics as they were; in every mode no handle leaves
\* the registry during a run and no counter of a handle ever decreases.
C29_Step ==
  /\ \A i \in 1..MaxAgents, answer \in Responses :
       pc = "parallel" /\ BranchResolve(i, answer) => Gains(promises[i].agent, answer)
  /\ \A i \in 1..MaxAgents, error \in Rejections :
       pc = "parallel" /\ BranchReject(i, error) => SameMetrics
  /\ \A answer \in Responses :
       SequentialResolve(answer) => Gains(execution[1].agents[frame.idx], answer)
  /\ \A error \in Rejections : SequentialReject(error) => SameMetrics
  /\ DOMAIN agents' = DOMAIN agents
  /\ \A name \in DOMAIN agents :
       /\ Counters(agents', name).tasksCompleted >= Counters(agents, name).tasksCompleted
       /\ Counters(agents', name).totalCost >= Counters(agents, name).totalCost
       /\ Counters(agents', name).input >= Counters(agents, name).input
       /\ Counters(agents', name).output >= Counters(agents, name).output

C29_MetricsGrow == [][C29_Step]_vars

\* a sequential run of one agent listed twice: its priced first prompt was
\* counted, with cost and tokens, and its failed second prompt was not
C29_Witness ==
  /\ Called /\ Mode = "sequential" /\ outcome.kind = "returned"
  /\ Len(outcome.results) = 2
  /\ execution[1].agents[1] = execution[1].agents[2]
  /\ outcome.results[1].status = "fulfilled"
  /\ outcome.results[2].status = "rejected"
  /\ Counters(agents, execution[1].agents[1]) =
       [tasksCompleted |-> 1, totalCost |-> 1, input |-> 3, output |-> 2]


\* ----------------------------------------------------- health-probe timers
\* C30: at no time is a health-probe timer armed for a handle object that is
\* not in the registry.
C30_AsClaimed == \A sid \in DOMAIN intervals : Registered(agents, sid)


\* ------------------------------------------------- status after a parallel run
\* C31: when executeParallel has returned, the status of the agent at every
\* index of the list is idle if the result at that index is fulfilled and
\* error if it is rejected.
C31_AsClaimed ==
  Called /\ Mode = "parallel" /\ outcome.kind = "returned" /\ Valid(execution[1].agents)
  => \A i \in 1..Len(outcome.results) :
       agents[execution[1].agents[i]].status =
         IF outcome.results[i].status = "fulfilled" THEN "idle" ELSE "error"


\* -------------------------------------------- the order of a hierarchical run
C32_Workers == Len(execution[1].agents) - 1

C32_Sent(role) == {c \in 1..Len(calls) : calls[c].by.role = role}

C33_AsClaimed ==
  (store.pending = {} /\ store.last # <<>> /\ LastReturn.op = "listKeys") =>
    \A key \in DOMAIN cache :
      cache[key].key = key => key \in LastReturn.result


\* ------------------------------------------------- overlapping spawns of a name
\* C34: while no terminate has been called, two spawn calls under the same
\* name never both return a handle.
C34_AsClaimed ==
  (\A o \in 1..Len(ops) : ops[o].op = "spawn") =>
    \A o1, o2 \in 1..Len(ops) :
      (o1 < o2 /\ ops[o1].arg.name = ops[o2].arg.name) =>
        ~(ops[o1].outcome.kind = "returned" /\ ops[o2].outcome.kind = "returned")


\* ------------------------------------------------- who removes a handle
\* the step ends a terminate call or a health probe that captured session sid
C35_EndsCallOn(sid) ==
  \/ \E o \in 1..Len(ops) :
       /\ ops[o].op = "terminate" /\ ops[o].sid = sid
       /\ ops[o].pc # "done" /\ ops'[o].pc = "done"
  \/ \E p \in probes \ probes' : p.sid = sid

C35_AsClaimedStep ==
  \A name \in DOMAIN agents :
    name \notin DOMAIN agents' => C35_EndsCallOn(agents[name].sessionId)

\* C35: a step that removes a handle from the registry is the end of a
\* terminate call or of a health probe that was started against that handle.
C35_AsClaimed == [][C35_AsClaimedStep]_vars


\* ------------------------------------------------- busy while a prompt is out
\* C36: whenever a prompt that execute sent for an agent is in flight, the
\* status of that agent is busy.
C36_AsClaimed ==
  \A c \in 1..Len(calls) :
    calls[c].state = "inflight" =>
      \A name \in DOMAIN agents :
        agents[name].sessionId = calls[c].sessionId => agents[name].status = "busy"


\* ------------------------------------------------- the aggregate of getMetrics
\* AgentManager.getMetrics() without an argument (280-305): the sums over the
\* handles in the registry
getMetrics(ag) ==
  LET names == SetToSeq({name \in DOMAIN ag : ag[name].metrics # <<>>})
      of(name) == ag[name].metrics[1]
  IN [totalAgents |-> Cardinality(DOMAIN ag),
      totalCost   |-> Sum([i \in 1..Len(names) |-> of(names[i]).totalCost]),
      totalTokens |->
        [input  |-> Sum([i \in 1..Len(names) |-> of(names[i]).totalTokens.input]),
         output |-> Sum([i \in 1..Len(names) |-> of(names[i]).totalTokens.output])],
      totalTasks  |-> Sum([i \in 1..Len(names) |-> of(names[i]).tasksCompleted]),
      byAgent     |-> [name \in {names[i] : i \in 1..Len(names)} |-> of(name)]]

\* the prompts that were answered
C37_Completed == SelectSeq(calls, LAMBDA c : c.state = "resolved")

\* C37: when execute has returned, the totalCost and totalTokens of
\* getMetrics() are the sums of the cost and the tokens of the prompts that
\* were answered.
C37_AsClaimed ==
  (Called /\ outcome.kind = "returned") =>
    LET done == C37_Completed
        all == getMetrics(agents)
    IN /\ all.totalCost = Sum([c \in 1..Len(done) |-> costOf(done[c].answer[1])])
       /\ all.totalTokens.input =
            Sum([c \in 1..Len(done) |-> tokensOf(done[c].answer[1]).input])
       /\ all.totalTokens.output =
            Sum([c \in 1..Len(done) |-> tokensOf(done[c].answer[1]).output])


\* ------------------------------------------------- remote sessions and handles
\* the spawn call created its remote session
C38_Created(frame_) ==
  /\ frame_.op = "spawn"
  /\ \/ frame_.pc = "prompt"
     \/ frame_.outcome.kind = "returned"
     \/ frame_.outcome.kind = "threw" /\ frame_.stage = "prompt"

\* a terminate call issued the remote delete of session sid
C38_DeleteIssued(sid) ==
  \E t \in 1..Len(ops) : ops[t].op = "terminate" /\ ops[t].sid = sid

\* C38: whenever no spawn or terminate call is in progress, every remote
\* session that a spawn call created and for which no remote delete was issued
\* is the session of a handle in the registry.
C38_AsClaimed ==
  (\A o \in 1..Len(ops) : ops[o].pc = "done") =>
    \A o \in 1..Len(ops) :
      (C38_Created(ops[o]) /\ ~C38_DeleteIssued(ops[o].sid)) =>
        Registered(agents, ops[o].sid)


\* ------------------------------------------------- one read loop at a time
\* C39: the deliveries of two read loops never interleave: between two
\* deliveries of one loop no other loop delivers an event.
C39_AsClaimed ==
  \A i, j, k \in 1..Len(stream.delivered) :
    (i < j /\ j < k /\ stream.delivered[i].stream = stream.delivered[k].stream) =>
      stream.delivered[j].stream = stream.delivered[i].stream


\* ------------------------------------------------- removal during a run
\* this.agents.delete(name) (agent-manager.ts 99, 248) taking effect while
\* execute awaits: a terminate call or the health supervisor removed the handle
AgentRemoved(name) ==
  /\ pc \notin {"idle", "done"}
  /\ name \in DOMAIN agents
  /\ agents' = [n \in DOMAIN agents \ {name} |-> agents[n]]
  /\ UNCHANGED <<now, events, flowVars, registryVars, gatewayVars>>

NextRemoval ==
  \/ Next
  \/ \E name \in Names : AgentRemoved(name)

SpecRemoval == Init /\ [][NextRemoval]_vars

\* C40: a sequential execute that has sent a prompt, and so has passed its
\* validation, does not throw.
C40_AsClaimed ==
  (Called /\ Mode = "sequential" /\ calls # <<>>) => outcome.kind # "threw"

====
